---- MODULE Spec2Model ----
(***************************************************************************)
(* Eurocode 3 member design checks of backend/calculation/ec3: the beam,   *)
(* column and truss-member pipelines (BeamDesignEC3, ColumnDesignEC3,      *)
(* TrussMemberDesignEC3), each a dataclass whose check_all() runs its      *)
(* steps in order and fills the object's result fields.                    *)
(*                                                                         *)
(* Numbers.  The Python code computes in binary floating point.  The model *)
(* computes in decimal floating point with four significant digits: a      *)
(* number is a pair <<m, e>> standing for m * 10^e, with m = 0 and e = 0   *)
(* for zero and 1000 <= |m| < 10000 otherwise.  Every                      *)
(* arithmetic operator rounds its result to that form, as a float          *)
(* operation rounds to 53 bits.  A division by zero is not an operator of  *)
(* the library: each step tests its divisors and raises ZeroDivisionError  *)
(* as Python does.                                                         *)
(***************************************************************************)
EXTENDS Integers, Sequences, FiniteSets, TLC

Ten(k) == 10 ^ k

\* the number of decimal digits of the integer n, 0 <= n < 2^31
NumDigits(n) ==
    IF n < 10 THEN 1 ELSE IF n < 100 THEN 2 ELSE IF n < 1000 THEN 3
    ELSE IF n < 10000 THEN 4 ELSE IF n < 100000 THEN 5
    ELSE IF n < 1000000 THEN 6 ELSE IF n < 10000000 THEN 7
    ELSE IF n < 100000000 THEN 8 ELSE IF n < 1000000000 THEN 9 ELSE 10

Abs(i) == IF i < 0 THEN -i ELSE i
Sgn(i) == IF i < 0 THEN -1 ELSE IF i = 0 THEN 0 ELSE 1

\* m * 10^e with |m| rounded to the four-digit q by dropping k digits
FRound(m, e, k, q) ==
    IF q = 10000 THEN <<Sgn(m) * 1000, e + k + 1>> ELSE <<Sgn(m) * q, e + k>>

\* m * 10^e for m # 0 of d digits
FNormD(m, e, d) ==
    IF d > 4
    THEN FRound(m, e, d - 4, (Abs(m) + Ten(d - 4) \div 2) \div Ten(d - 4))
    ELSE <<m * Ten(4 - d), e - (4 - d)>>

\* the float nearest to m * 10^e (round half away from zero)
FNorm(m, e) == IF m = 0 THEN <<0, 0>> ELSE FNormD(m, e, NumDigits(Abs(m)))

\* literals: the integer i, and the decimal i * 10^(-k)
F(i) == FNorm(i, 0)
Dec(i, k) == FNorm(i, -k)

Zero == <<0, 0>>
One == F(1)
IsZero(a) == a[1] = 0
FNeg(a) == <<-a[1], a[2]>>
FAbs(a) == <<Abs(a[1]), a[2]>>

\* hi + lo for non-zero hi, lo with hi[2] >= lo[2]
FAddOrd(hi, lo) ==
    IF hi[2] - lo[2] > 5 THEN hi
    ELSE FNorm(hi[1] * Ten(hi[2] - lo[2]) + lo[1], lo[2])

FAdd(a, b) ==
    IF IsZero(a) THEN b
    ELSE IF IsZero(b) THEN a
    ELSE IF a[2] >= b[2] THEN FAddOrd(a, b) ELSE FAddOrd(b, a)

FSub(a, b) == FAdd(a, FNeg(b))
FMul(a, b) == FNorm(a[1] * b[1], a[2] + b[2])

\* a / b for b # 0
FDiv(a, b) ==
    FNorm(Sgn(a[1]) * Sgn(b[1]) * ((Abs(a[1]) * 10000) \div Abs(b[1])),
          a[2] - b[2] - 4)

\* a < b: by sign, then by exponent, then by mantissa
FLt(a, b) ==
    IF Sgn(a[1]) # Sgn(b[1]) THEN Sgn(a[1]) < Sgn(b[1])
    ELSE IF a[2] # b[2] THEN (IF a[1] > 0 THEN a[2] < b[2] ELSE a[2] > b[2])
    ELSE a[1] < b[1]
FLe(a, b) == a = b \/ FLt(a, b)
FGe(a, b) == FLe(b, a)
FGt(a, b) == FLt(b, a)
FPos(a) == a[1] > 0
FMin(a, b) == IF FLe(a, b) THEN a ELSE b
\* Python's max(a, b) returns a unless b > a
FMax(a, b) == IF FGt(b, a) THEN b ELSE a

RECURSIVE ISqrtIter(_, _)
ISqrtIter(n, x) ==
    LET y == (x + n \div x) \div 2
    IN  IF y >= x THEN x ELSE ISqrtIter(n, y)
\* floor of the square root of the integer n >= 0
ISqrt(n) == IF n = 0 THEN 0 ELSE ISqrtIter(n, IF n > 46340 THEN 46340 ELSE n)

\* math.sqrt(a) for a >= 0
FSqrt(a) ==
    IF IsZero(a) THEN Zero
    ELSE IF a[2] % 2 # 0
         THEN FNorm(ISqrt(a[1] * 100000), (a[2] - 5) \div 2)
         ELSE FNorm(ISqrt(a[1] * 10000), (a[2] - 4) \div 2)

RECURSIVE FPowInt(_, _)
\* a ** k for an integer k >= 0
FPowInt(a, k) == IF k = 0 THEN One ELSE FMul(a, FPowInt(a, k - 1))


\* max(S) of a non-empty finite set of numbers
FMaxOf(S) == CHOOSE m \in S : \A y \in S : FLe(y, m)

RECURSIVE SortedSeqDescending(_)
\* sorted(S, reverse=True)
SortedSeqDescending(S) ==
    IF S = {} THEN <<>>
    ELSE LET hi == CHOOSE x \in S : \A y \in S : FLe(y, x)
         IN  <<hi>> \o SortedSeqDescending(S \ {hi})

RECURSIVE SortedSeq(_)
\* sorted(S) of a finite set of numbers
SortedSeq(S) ==
    IF S = {} THEN <<>>
    ELSE LET lo == CHOOSE x \in S : \A y \in S : FLe(x, y)
         IN  <<lo>> \o SortedSeq(S \ {lo})

SeqSet(xs) == {xs[i] : i \in DOMAIN xs}

(***************************************************************************)
(* Strings are sequences of one-character strings, so that str.upper() is  *)
(* computed and not assumed.                                               *)
(***************************************************************************)
LowerCase == <<"a","b","c","d","e","f","g","h","i","j","k","l","m",
               "n","o","p","q","r","s","t","u","v","w","x","y","z">>
UpperCase == <<"A","B","C","D","E","F","G","H","I","J","K","L","M",
               "N","O","P","Q","R","S","T","U","V","W","X","Y","Z">>
UpperChar(c) ==
    IF \E i \in DOMAIN LowerCase : LowerCase[i] = c
    THEN UpperCase[CHOOSE i \in DOMAIN LowerCase : LowerCase[i] = c]
    ELSE c
\* str.upper()
StrUpper(s) == [i \in DOMAIN s |-> UpperChar(s[i])]

(***************************************************************************)
(* Module constants and tables of ec3/beam.py                              *)
(***************************************************************************)
E_STEEL == 210000
G_STEEL == 80770
GAMMA_M0 == 1
GAMMA_M1 == 1
Pi == Dec(3142, 3)
Sentinel == 999

S235 == <<"S","2","3","5">>
S275 == <<"S","2","7","5">>
S355 == <<"S","3","5","5">>
S450 == <<"S","4","5","0">>

\* _FY_TABLE: grade -> bands (max thickness, fy), ascending
FY_KEYS == {S235, S275, S355, S450}
FY_TABLE(g) ==
    CASE g = S235 -> << <<16, 235>>, <<40, 225>>, <<63, 215>>, <<80, 215>>, <<999, 195>> >>
      [] g = S275 -> << <<16, 275>>, <<40, 265>>, <<63, 255>>, <<80, 245>>, <<999, 235>> >>
      [] g = S355 -> << <<16, 355>>, <<40, 345>>, <<63, 335>>, <<80, 325>>, <<999, 315>> >>
      [] g = S450 -> << <<16, 440>>, <<40, 430>>, <<63, 410>>, <<80, 390>>, <<999, 380>> >>

RECURSIVE FyScanStrict(_, _, _)
\* the loop with the comparison tf_mm < max_t: a thickness equal to a
\* threshold falls through to the next band
FyScanStrict(bands, tf_mm, i) ==
    IF i > Len(bands) THEN bands[Len(bands)][2]
    ELSE IF FLt(tf_mm, F(bands[i][1])) THEN bands[i][2]
    ELSE FyScanStrict(bands, tf_mm, i + 1)

RECURSIVE FyScan(_, _, _)
\* the for loop of _get_fy over the bands, from band i
FyScan(bands, tf_mm, i) ==
    IF i > Len(bands) THEN bands[Len(bands)][2]
    ELSE IF FLe(tf_mm, F(bands[i][1])) THEN bands[i][2]
    ELSE FyScan(bands, tf_mm, i + 1)

\* _get_fy without grade.upper(): the table is looked up by the grade as given
get_fy_as_given(grade, tf_mm) ==
    IF grade \notin FY_KEYS
    THEN [exc |-> "ValueError", fy |-> Zero]
    ELSE [exc |-> "none", fy |-> F(FyScan(FY_TABLE(grade), tf_mm, 1))]

\* _get_fy(grade, tf_mm): exc is "ValueError" for a grade that is no key
get_fy(grade, tf_mm) ==
    LET g == StrUpper(grade)
    IN  IF g \notin FY_KEYS
        THEN [exc |-> "ValueError", fy |-> Zero]
        ELSE [exc |-> "none", fy |-> F(FyScan(FY_TABLE(g), tf_mm, 1))]

\* _ALPHA_LT
ALPHA_LT_KEYS == {"a", "b", "c", "d"}
ALPHA_LT(c) ==
    CASE c = "a" -> Dec(21, 2) [] c = "b" -> Dec(34, 2)
      [] c = "c" -> Dec(49, 2) [] c = "d" -> Dec(76, 2)

(***************************************************************************)
(* BeamDesignEC3                                                           *)
(***************************************************************************)
\* the result fields of the dataclass at their defaults (beam.py 113-171)
BeamDefaults ==
    [fy |-> Zero, epsilon |-> Zero,
     c_web |-> Zero, ct_web |-> Zero, web_class |-> 0,
     c_flange |-> Zero, ct_flange |-> Zero, flange_class |-> 0,
     section_class |-> 0,
     Wy |-> Zero, Mc_Rd |-> Zero, bending_util |-> Zero, bending_ok |-> FALSE,
     Av |-> Zero, Vpl_Rd |-> Zero, shear_util |-> Zero, shear_ok |-> FALSE,
     hw_tw |-> Zero, hw_tw_limit |-> Zero, shear_buckling_ok |-> FALSE,
     rho |-> Zero, Mv_Rd |-> Zero, combined_util |-> Zero,
     combined_ok |-> FALSE, low_shear |-> FALSE,
     beta_LT |-> Dec(75, 2), lambda_LT_0 |-> Dec(4, 1),
     Iw_mm6 |-> Zero, buckling_curve |-> "", alpha_LT |-> Zero,
     Mcr |-> Zero, lambda_LT |-> Zero, Phi_LT |-> Zero, chi_LT |-> Zero,
     kc |-> Zero, f_mod |-> Zero, chi_LT_mod |-> Zero, Mb_Rd |-> Zero,
     ltb_util |-> Zero, ltb_ok |-> FALSE,
     ltb_segments |-> <<>>, governing_seg_idx |-> 0,
     delta_limit |-> Zero, defl_ratio |-> Zero,
     deflection_util |-> Zero, deflection_ok |-> FALSE,
     overall_ok |-> FALSE]

BeamResultFields == DOMAIN BeamDefaults

\* _M_at(x): bending moment at x m from node i (N.m)
M_at(b, x) ==
    FAdd(FAdd(b.moment_at_i, FMul(b.shear_at_i, x)),
         FDiv(FMul(b.w_local, FPowInt(x, 2)), F(2)))

\* _V_at(x): shear force at x m from node i (N)
V_at(b, x) == FAdd(b.shear_at_i, FMul(b.w_local, x))

N_SAMPLES == 100

\* x = k / 100 * span
SampleX(b, k) == FMul(FDiv(F(k), F(N_SAMPLES)), b.span)

\* the loop of __post_init__ over k in range(101) keeps the running maxima
\* best_M and best_V, starting from 0.0 and replaced on a strictly larger
\* sample: the maximum of 0.0 and the sampled abs(_M_at(x)), abs(_V_at(x))
BestM(b) ==
    FMaxOf({Zero} \cup {FAbs(M_at(b, SampleX(b, k))) : k \in 0..N_SAMPLES})
BestV(b) ==
    FMaxOf({Zero} \cup {FAbs(V_at(b, SampleX(b, k))) : k \in 0..N_SAMPLES})

\* an optional argument: None, or Some(v)
None == <<>>
Some(v) == <<v>>

\* __post_init__ applied to the constructor's arguments
BeamPostInit(a) ==
    LET has_dist == ~IsZero(a.shear_at_i) \/ ~IsZero(a.moment_at_i)
                    \/ ~IsZero(a.w_local)
        best_M == BestM(a)
        best_V == BestV(a)
    IN  [a EXCEPT
           !.Lcr = IF a.Lcr = None THEN a.span ELSE a.Lcr[1],
           !.MEd = IF has_dist THEN FDiv(best_M, F(1000)) ELSE a.MEd,
           !.VEd = IF has_dist THEN FDiv(best_V, F(1000)) ELSE a.VEd,
           !.restraint_positions =
               IF a.restraint_positions = None
               THEN <<Zero, a.span>> ELSE a.restraint_positions[1]]

\* _step1_yield_strength
beam_step1(b) ==
    LET r == get_fy(b.steel_grade, b.section_data.tf)
    IN  IF r.exc # "none" THEN [obj |-> b, exc |-> r.exc]
        ELSE [obj |-> [b EXCEPT !.fy = r.fy,
                                !.epsilon = FSqrt(FDiv(F(235), r.fy))],
              exc |-> "none"]

\* the chain with the outcomes of the second and third tests exchanged
ClassOfExchanged(ct, eps, l1, l2, l3) ==
    IF FLe(ct, FMul(F(l1), eps)) THEN 1
    ELSE IF FLe(ct, FMul(F(l2), eps)) THEN 3
    ELSE IF FLe(ct, FMul(F(l3), eps)) THEN 2
    ELSE 4

\* the class of a ratio against the three limits l1*eps, l2*eps, l3*eps
ClassOf(ct, eps, l1, l2, l3) ==
    IF FLe(ct, FMul(F(l1), eps)) THEN 1
    ELSE IF FLe(ct, FMul(F(l2), eps)) THEN 2
    ELSE IF FLe(ct, FMul(F(l3), eps)) THEN 3
    ELSE 4

IMax(i, j) == IF j > i THEN j ELSE i

\* _step2_classify
beam_step2(b) ==
    LET sd == b.section_data
        eps == b.epsilon
    IN  IF IsZero(sd.tw) THEN [obj |-> [b EXCEPT !.c_web = sd.d],
                               exc |-> "ZeroDivisionError"]
        ELSE
        LET ct_web == FDiv(sd.d, sd.tw)
            web_class == ClassOf(ct_web, eps, 72, 83, 124)
            c_flange == FSub(FDiv(FSub(sd.b, sd.tw), F(2)), sd.r)
            b1 == [b EXCEPT !.c_web = sd.d, !.ct_web = ct_web,
                            !.web_class = web_class, !.c_flange = c_flange]
        IN  IF IsZero(sd.tf) THEN [obj |-> b1, exc |-> "ZeroDivisionError"]
            ELSE
            LET ct_flange == FDiv(c_flange, sd.tf)
                flange_class == ClassOf(ct_flange, eps, 9, 10, 14)
            IN  [obj |-> [b1 EXCEPT !.ct_flange = ct_flange,
                                    !.flange_class = flange_class,
                                    !.section_class = IMax(web_class, flange_class)],
                 exc |-> "none"]

\* demand / capacity if capacity > 0 else 999
Util(demand, capacity) ==
    IF FPos(capacity) THEN FDiv(FAbs(demand), capacity) ELSE F(Sentinel)

\* _step3_bending
beam_step3(b) ==
    LET sd == b.section_data
        Wy == IF b.section_class <= 2 THEN FMul(sd.Wpl_y, F(1000))
                                      ELSE FMul(sd.Wel_y, F(1000))
        Mc_Rd == FDiv(FDiv(FMul(Wy, b.fy), F(GAMMA_M0)), F(1000000))
        util == Util(b.MEd, Mc_Rd)
    IN  [obj |-> [b EXCEPT !.Wy = Wy, !.Mc_Rd = Mc_Rd, !.bending_util = util,
                           !.bending_ok = FLe(util, One)],
         exc |-> "none"]

\* _step4_shear
beam_step4(b) ==
    LET sd == b.section_data
        A_mm2 == FMul(sd.A, F(100))
        Av0 == FAdd(FSub(A_mm2, FMul(FMul(F(2), sd.b), sd.tf)),
                    FMul(FAdd(sd.tw, FMul(F(2), sd.r)), sd.tf))
        Av == FMax(Av0, FMul(FMul(One, sd.hi), sd.tw))
        Vpl_Rd == FDiv(FDiv(FMul(Av, FDiv(b.fy, FSqrt(F(3)))), F(GAMMA_M0)),
                       F(1000))
        util == Util(b.VEd, Vpl_Rd)
    IN  [obj |-> [b EXCEPT !.Av = Av, !.Vpl_Rd = Vpl_Rd, !.shear_util = util,
                           !.shear_ok = FLe(util, One)],
         exc |-> "none"]

\* _step5_shear_buckling
beam_step5(b) ==
    LET sd == b.section_data
    IN  IF IsZero(sd.tw) THEN [obj |-> b, exc |-> "ZeroDivisionError"]
        ELSE
        LET hw_tw == FDiv(sd.d, sd.tw)
            limit == FDiv(FMul(F(72), b.epsilon), One)
        IN  [obj |-> [b EXCEPT !.hw_tw = hw_tw, !.hw_tw_limit = limit,
                               !.shear_buckling_ok = FLe(hw_tw, limit)],
             exc |-> "none"]

\* _step6_combined with the boundary |VEd| = 0.5 Vpl_Rd taken as high shear
beam_step6_strict(b) ==
    LET low_shear == FLt(FAbs(b.VEd), FMul(Dec(5, 1), b.Vpl_Rd))
        b1 == [b EXCEPT !.low_shear = low_shear]
    IN  IF ~low_shear /\ IsZero(b.Vpl_Rd)
        THEN [obj |-> b1, exc |-> "ZeroDivisionError"]
        ELSE
        LET rho == IF low_shear THEN Zero
                   ELSE FPowInt(FSub(FDiv(FMul(F(2), FAbs(b.VEd)), b.Vpl_Rd),
                                     One), 2)
            fy_red == FMul(FSub(One, rho), b.fy)
            Mv_Rd == IF low_shear THEN b.Mc_Rd
                     ELSE FDiv(FDiv(FMul(b.Wy, fy_red), F(GAMMA_M0)), F(1000000))
            util == Util(b.MEd, Mv_Rd)
        IN  [obj |-> [b1 EXCEPT !.rho = rho, !.Mv_Rd = Mv_Rd,
                                !.combined_util = util,
                                !.combined_ok = FLe(util, One)],
             exc |-> "none"]

\* _step6_combined
beam_step6(b) ==
    LET low_shear == FLe(FAbs(b.VEd), FMul(Dec(5, 1), b.Vpl_Rd))
        b1 == [b EXCEPT !.low_shear = low_shear]
    IN  IF ~low_shear /\ IsZero(b.Vpl_Rd)
        THEN [obj |-> b1, exc |-> "ZeroDivisionError"]
        ELSE
        LET rho == IF low_shear THEN Zero
                   ELSE FPowInt(FSub(FDiv(FMul(F(2), FAbs(b.VEd)), b.Vpl_Rd),
                                     One), 2)
            fy_red == FMul(FSub(One, rho), b.fy)
            Mv_Rd == IF low_shear THEN b.Mc_Rd
                     ELSE FDiv(FDiv(FMul(b.Wy, fy_red), F(GAMMA_M0)), F(1000000))
            util == Util(b.MEd, Mv_Rd)
        IN  [obj |-> [b1 EXCEPT !.rho = rho, !.Mv_Rd = Mv_Rd,
                                !.combined_util = util,
                                !.combined_ok = FLe(util, One)],
             exc |-> "none"]

\* _step9_serviceability
beam_step9(b) ==
    LET span_mm == FMul(b.span, F(1000))
        ratio == IF b.deflection_limit_type = "cantilever" THEN F(180)
                 ELSE IF b.deflection_limit_type = "brittle" THEN F(360)
                 ELSE F(200)
        limit == FDiv(span_mm, ratio)
        util == Util(b.delta_max, limit)
    IN  [obj |-> [b EXCEPT !.defl_ratio = ratio, !.delta_limit = limit,
                           !.deflection_util = util,
                           !.deflection_ok = FLe(util, One)],
         exc |-> "none"]


N_PTS == 20

\* the 21 sampled |M| of a segment: moments[k], k = 0..n_pts, at index k + 1
SegMoments(b, x_start, x_end) ==
    [j \in 1..(N_PTS + 1) |->
        FAbs(M_at(b, FAdd(x_start,
                          FMul(FDiv(F(j - 1), F(N_PTS)), FSub(x_end, x_start)))))]

\* chi_LT of the rolled-sections method: discriminant guard, then the caps
ChiLT(phi, lam, beta) ==
    LET disc == FSub(FPowInt(phi, 2), FMul(beta, FPowInt(lam, 2)))
        chi0 == IF FPos(disc) THEN FDiv(One, FAdd(phi, FSqrt(disc))) ELSE One
        cap == IF FPos(lam) THEN FDiv(One, FPowInt(lam, 2)) ELSE One
    IN  FMin(FMin(chi0, One), cap)

\* the body of the segment loop of _step8_ltb for rpos[i], rpos[i+1]: the
\* loop body's local variables s, assigned in program order
\* (Iz_mm4 # 0; the segment length is not zero, rpos being a sorted set)
LTBSegment(b, x_start, x_end, Iw_mm6, alpha_LT) ==
    LET Iz_mm4 == FMul(b.section_data.Iz, F(10000))
        It_mm4 == FMul(b.section_data.It, F(10000))
        Sample(moments) ==
            [L_seg_mm |-> FMul(FSub(x_end, x_start), F(1000)),
             M_max |-> FMaxOf(SeqSet(moments)),
             M_A |-> moments[N_PTS \div 4 + 1],
             M_B |-> moments[N_PTS \div 2 + 1],
             M_C |-> moments[(3 * N_PTS) \div 4 + 1]]
        Quarter(s) ==
            s @@ [MEd_seg |-> FDiv(s.M_max, F(1000)),
                  denom |-> FAdd(FAdd(FAdd(FMul(Dec(25, 1), s.M_max),
                                           FMul(F(3), s.M_A)),
                                      FMul(F(4), s.M_B)),
                                 FMul(F(3), s.M_C))]
        C1(s) ==
            s @@ [C1_seg |-> FMax(IF FPos(s.denom)
                                  THEN FDiv(FMul(Dec(125, 1), s.M_max), s.denom)
                                  ELSE One,
                                  One)]
        Terms(s) ==
            s @@ [kc_seg |-> FDiv(One, FSqrt(s.C1_seg)),
                  coeff |-> FDiv(FMul(FMul(FMul(s.C1_seg, FPowInt(Pi, 2)),
                                           F(E_STEEL)), Iz_mm4),
                                 FPowInt(s.L_seg_mm, 2)),
                  t1 |-> FDiv(Iw_mm6, Iz_mm4),
                  t2 |-> FDiv(FMul(FMul(FPowInt(s.L_seg_mm, 2), F(G_STEEL)), It_mm4),
                              FMul(FMul(FPowInt(Pi, 2), F(E_STEEL)), Iz_mm4))]
        Critical(s) ==
            s @@ [Mcr_seg |-> FDiv(FMul(s.coeff, FSqrt(FAdd(s.t1, s.t2))),
                                   F(1000000))]
        Slender(s) ==
            s @@ [lam |-> IF FPos(s.Mcr_seg)
                          THEN FSqrt(FDiv(FMul(b.Wy, b.fy),
                                          FMul(s.Mcr_seg, F(1000000))))
                          ELSE F(Sentinel)]
        Phi(s) ==
            s @@ [phi |-> FMul(Dec(5, 1),
                               FAdd(FAdd(One, FMul(alpha_LT,
                                                   FSub(s.lam, b.lambda_LT_0))),
                                    FMul(b.beta_LT, FPowInt(s.lam, 2)))),
                  f |-> FMin(FSub(One,
                                  FMul(FMul(Dec(5, 1), FSub(One, s.kc_seg)),
                                       FSub(One,
                                            FMul(F(2),
                                                 FPowInt(FSub(s.lam, Dec(8, 1)), 2))))),
                             One)]
        Chi(s) == s @@ [chi |-> ChiLT(s.phi, s.lam, b.beta_LT)]
        Modified(s) ==
            s @@ [chi_mod |-> IF FPos(s.f) THEN FMin(FDiv(s.chi, s.f), One)
                              ELSE s.chi]
        Resistance(s) ==
            s @@ [Mb_Rd_seg |-> FDiv(FDiv(FMul(FMul(s.chi_mod, b.Wy), b.fy),
                                          F(GAMMA_M1)), F(1000000))]
        Utilisation(s) ==
            s @@ [util_seg |-> IF FPos(s.Mb_Rd_seg) THEN FDiv(s.MEd_seg, s.Mb_Rd_seg)
                               ELSE F(Sentinel)]
        Result(s) ==
            [start_m |-> x_start, end_m |-> x_end, L_mm |-> s.L_seg_mm,
             MEd_seg |-> s.MEd_seg, C1 |-> s.C1_seg, kc |-> s.kc_seg,
             Mcr |-> s.Mcr_seg, lambda_LT |-> s.lam, Phi_LT |-> s.phi,
             chi_LT |-> s.chi, f_mod |-> s.f, chi_LT_mod |-> s.chi_mod,
             Mb_Rd |-> s.Mb_Rd_seg, util |-> s.util_seg,
             ok |-> FLe(s.util_seg, One)]
    IN  Result(Utilisation(Resistance(Modified(Chi(Phi(Slender(Critical(
            Terms(C1(Quarter(Sample(SegMoments(b, x_start, x_end)))))))))))))

RECURSIVE SegmentListNoLast(_, _, _)
\* the segment loop stopping one interval short: range(len(rpos) - 2)
SegmentListNoLast(b, rpos, i) ==
    IF i >= Len(rpos) - 1 THEN <<>>
    ELSE <<LTBSegment(b, rpos[i], rpos[i + 1], b.Iw_mm6, b.alpha_LT)>>
         \o SegmentListNoLast(b, rpos, i + 1)

RECURSIVE SegmentList(_, _, _)
\* the segment loop of _step8_ltb from index i (1-based) of rpos
SegmentList(b, rpos, i) ==
    IF i >= Len(rpos) THEN <<>>
    ELSE <<LTBSegment(b, rpos[i], rpos[i + 1], b.Iw_mm6, b.alpha_LT)>>
         \o SegmentList(b, rpos, i + 1)

RECURSIVE ArgMaxUtil(_, _, _)
\* max(range(len(segments)), key=util): scan from index i with best so far
\* (0-based indices; Python's max keeps the first of equal keys)
ArgMaxUtil(segments, i, best) ==
    IF i >= Len(segments) THEN best
    ELSE ArgMaxUtil(segments, i + 1,
                    IF FGt(segments[i + 1].util, segments[best + 1].util)
                    THEN i ELSE best)

RECURSIVE ArgMaxUtilLast(_, _, _)
\* the scan updating on >= : the last of equal keys is kept
ArgMaxUtilLast(segments, i, best) ==
    IF i >= Len(segments) THEN best
    ELSE ArgMaxUtilLast(segments, i + 1,
                        IF FGe(segments[i + 1].util, segments[best + 1].util)
                        THEN i ELSE best)

\* the index found by the scan that keeps the last of equal keys
GoverningIdxLast(segments) == ArgMaxUtilLast(segments, 1, 0)

\* the governing segment's index
GoverningIdx(segments) == ArgMaxUtil(segments, 1, 0)

\* the governing segment's utilisation added to the member's (+=)
CopyGoverningAdding(b, gov) ==
    [b EXCEPT !.Mcr = gov.Mcr, !.lambda_LT = gov.lambda_LT, !.kc = gov.kc,
              !.Phi_LT = gov.Phi_LT, !.chi_LT = gov.chi_LT,
              !.f_mod = gov.f_mod, !.chi_LT_mod = gov.chi_LT_mod,
              !.Mb_Rd = gov.Mb_Rd, !.ltb_util = FAdd(b.ltb_util, gov.util),
              !.ltb_ok = gov.ok]

\* the member-level LTB fields copied from the governing segment
CopyGoverning(b, gov) ==
    [b EXCEPT !.Mcr = gov.Mcr, !.lambda_LT = gov.lambda_LT, !.kc = gov.kc,
              !.Phi_LT = gov.Phi_LT, !.chi_LT = gov.chi_LT,
              !.f_mod = gov.f_mod, !.chi_LT_mod = gov.chi_LT_mod,
              !.Mb_Rd = gov.Mb_Rd, !.ltb_util = gov.util, !.ltb_ok = gov.ok]

\* _step8_ltb
beam_step8(b) ==
    LET sd == b.section_data
        Govern(b3) ==
            CopyGoverning(b3, b3.ltb_segments[b3.governing_seg_idx + 1])
        Segments(b2) ==
            IF b2.ltb_segments # <<>>
            THEN Govern([b2 EXCEPT !.governing_seg_idx =
                                       GoverningIdx(b2.ltb_segments)])
            ELSE [b2 EXCEPT !.ltb_ok = TRUE]
        Loop(b1, rpos) ==
            IF Len(rpos) > 1 /\ IsZero(sd.Iz)
            THEN [obj |-> b1, exc |-> "ZeroDivisionError"]
            ELSE [obj |-> Segments([b1 EXCEPT !.ltb_segments =
                                                  SegmentList(b1, rpos, 1)]),
                  exc |-> "none"]
        Curve(b0, curve) ==
            Loop([b0 EXCEPT !.buckling_curve = curve,
                            !.alpha_LT = ALPHA_LT(curve)],
                 SortedSeq(SeqSet(b.restraint_positions)))
        Convert(b0) ==
            IF IsZero(sd.b) THEN [obj |-> b0, exc |-> "ZeroDivisionError"]
            ELSE Curve(b0, IF FLe(FDiv(sd.h, sd.b), F(2)) THEN "b" ELSE "c")
    IN  Convert([b EXCEPT !.Iw_mm6 = FMul(sd.Iw, F(1000000))])

\* the aggregate without the shear buckling screening of step 5
BeamOverallFive(b) ==
    /\ b.bending_ok
    /\ b.shear_ok
    /\ b.combined_ok
    /\ b.ltb_ok
    /\ b.deflection_ok

\* the aggregate of check_all
BeamOverall(b) ==
    /\ b.bending_ok
    /\ b.shear_ok
    /\ b.shear_buckling_ok
    /\ b.combined_ok
    /\ b.ltb_ok
    /\ b.deflection_ok


(***************************************************************************)
(* ColumnDesignEC3                                                         *)
(***************************************************************************)
\* the integer part of a float a >= 0
FloorInt(a) == IF a[2] >= 0 THEN a[1] * Ten(a[2])
               ELSE IF -a[2] > 8 THEN 0 ELSE a[1] \div Ten(-a[2])

RECURSIVE PowFrac(_, _, _)
\* x ** f for 0 <= f < 1 from the binary digits of f: r is the root of x
\* reached so far, k the number of digits left
PowFrac(r, f, k) ==
    IF k = 0 \/ IsZero(f) THEN One
    ELSE LET r2 == FSqrt(r)
             f2 == FMul(f, F(2))
         IN  IF FGe(f2, One) THEN FMul(r2, PowFrac(r2, FSub(f2, One), k - 1))
             ELSE PowFrac(r2, f2, k - 1)

\* x ** y of floats, x >= 0 and y > 0
FPow(x, y) ==
    IF IsZero(x) THEN Zero
    ELSE LET n == FloorInt(y)
         IN  FMul(FPowInt(x, n), PowFrac(x, FSub(y, F(n)), 12))

\* _ALPHA_FLEX of column.py
ALPHA_FLEX(c) ==
    CASE c = "a0" -> Dec(13, 2) [] c = "a" -> Dec(21, 2) [] c = "b" -> Dec(34, 2)
      [] c = "c" -> Dec(49, 2) [] c = "d" -> Dec(76, 2)

\* the result fields of the dataclass at their defaults (column.py 54-138)
ColumnDefaults ==
    [fy |-> Zero, epsilon |-> Zero,
     alpha_web |-> Zero, c_web |-> Zero, ct_web |-> Zero, web_class |-> 0,
     c_flange |-> Zero, ct_flange |-> Zero, flange_class |-> 0,
     section_class |-> 0,
     NRd |-> Zero,
     Wy |-> Zero, Wz |-> Zero, My_Rd |-> Zero, Mz_Rd |-> Zero,
     Av |-> Zero, Vpl_Rd |-> Zero, shear_util |-> Zero, shear_ok |-> FALSE,
     conservative_util |-> Zero, conservative_ok |-> FALSE,
     a_w |-> Zero, MN_y_Rd |-> Zero, MN_z_Rd |-> Zero,
     alpha_interact |-> F(2), beta_interact |-> One,
     alternative_util |-> Zero, alternative_ok |-> FALSE,
     iy_mm |-> Zero, iz_mm |-> Zero, lambda_1 |-> Zero,
     lambda_bar_y |-> Zero, lambda_bar_z |-> Zero,
     curve_y |-> "", curve_z |-> "", alpha_y |-> Zero, alpha_z |-> Zero,
     Phi_y |-> Zero, Phi_z |-> Zero, chi_y |-> Zero, chi_z |-> Zero,
     Nb_Rd |-> Zero,
     Iw_mm6 |-> Zero, buckling_curve_LT |-> "", alpha_LT |-> Zero,
     Mcr |-> Zero, lambda_LT |-> Zero, Phi_LT |-> Zero, chi_LT |-> Zero,
     Mb_Rd |-> Zero,
     Ncr_y |-> Zero, Ncr_z |-> Zero, Ncr_T |-> Zero, aLT |-> Zero,
     Cmy |-> Zero, Cmz |-> Zero, CmLT |-> Zero, lambda_bar_0 |-> Zero,
     kyy |-> Zero, kyz |-> Zero, kzy |-> Zero, kzz |-> Zero,
     eq6_61 |-> Zero, eq6_62 |-> Zero, combined_buckling_ok |-> FALSE,
     overall_ok |-> FALSE]

ColumnResultFields == DOMAIN ColumnDefaults

\* __post_init__ applied to the constructor's arguments
ColumnPostInit(a) ==
    [a EXCEPT !.Lcr_LT = IF a.Lcr_LT = None THEN a.Lcr_z ELSE a.Lcr_LT[1]]

\* _step1_yield_strength
column_step1(c) ==
    LET r == get_fy(c.steel_grade, c.section_data.tf)
    IN  IF r.exc # "none" THEN [obj |-> c, exc |-> r.exc]
        ELSE [obj |-> [c EXCEPT !.fy = r.fy,
                                !.epsilon = FSqrt(FDiv(F(235), r.fy))],
              exc |-> "none"]

\* alpha of _step2_classify: the fraction of the web in compression
WebAlpha(c) ==
    LET NEd_N == FMul(c.NEd, F(1000))
    IN  IF FPos(NEd_N) /\ ~IsZero(c.My_Ed)
        THEN FMax(Zero,
                  FMin(FDiv(FAdd(FDiv(c.c_web, F(2)),
                                 FDiv(NEd_N,
                                      FMul(FMul(F(2), c.section_data.tw), c.fy))),
                            c.c_web),
                       One))
        ELSE IF FPos(NEd_N) THEN One
        ELSE Dec(5, 1)

\* limit1 (k = 396 or 36) and limit2 (k = 456 or 41.5) of _step2_classify
WebLimit12(alpha, eps, k_hi, k_lo) ==
    IF FGt(alpha, Dec(5, 1))
    THEN FDiv(FMul(k_hi, eps), FSub(FMul(F(13), alpha), One))
    ELSE IF FPos(alpha) THEN FDiv(FMul(k_lo, eps), alpha)
    ELSE F(Sentinel)

\* limit3 of _step2_classify
WebLimit3(alpha, eps) ==
    LET Clamp(psi) == FMax(FNeg(One), FMin(psi, One))
        Limit(denom) == FDiv(FMul(F(42), eps), denom)
        Guarded(denom) == IF FPos(denom) THEN Limit(denom) ELSE F(Sentinel)
    IN  IF FGe(alpha, One)
        THEN Limit(FAdd(Dec(67, 2), FMul(Dec(33, 2), One)))
        ELSE IF FGt(alpha, Dec(5, 1))
        THEN Limit(FAdd(Dec(67, 2),
                        FMul(Dec(33, 2),
                             Clamp(FDiv(FSub(FMul(F(2), alpha), One), One)))))
        ELSE Guarded(FAdd(Dec(67, 2),
                          FMul(Dec(33, 2),
                               Clamp(FSub(FMul(F(2), alpha), One)))))

\* the class of the web ratio against limit1, limit2, limit3
WebClass(ct, alpha, eps) ==
    IF FLe(ct, WebLimit12(alpha, eps, F(396), F(36))) THEN 1
    ELSE IF FLe(ct, WebLimit12(alpha, eps, F(456), Dec(415, 1))) THEN 2
    ELSE IF FLe(ct, WebLimit3(alpha, eps)) THEN 3
    ELSE 4

\* _step2_classify (section_data.tf and .tw are not zero)
column_step2(c) ==
    LET sd == c.section_data
        Classes(c4) ==
            [c4 EXCEPT !.section_class = IMax(c4.web_class, c4.flange_class)]
        Web(c3) ==
            Classes([c3 EXCEPT !.web_class =
                                   WebClass(c3.ct_web, c3.alpha_web, c.epsilon)])
        Alpha(c2) == Web([c2 EXCEPT !.alpha_web = WebAlpha(c2)])
        Ratios(c1) ==
            Alpha([c1 EXCEPT !.ct_flange = FDiv(c1.c_flange, sd.tf),
                             !.flange_class =
                                 ClassOf(FDiv(c1.c_flange, sd.tf), c.epsilon,
                                         9, 10, 14),
                             !.c_web = sd.d, !.ct_web = FDiv(sd.d, sd.tw)])
    IN  [obj |-> Ratios([c EXCEPT !.c_flange =
                                      FSub(FDiv(FSub(sd.b, sd.tw), F(2)), sd.r)]),
         exc |-> "none"]

\* _step3_axial
column_step3(c) ==
    LET A_mm2 == FMul(c.section_data.A, F(100))
    IN  [obj |-> [c EXCEPT !.NRd = FDiv(FDiv(FMul(A_mm2, c.fy), F(GAMMA_M0)),
                                        F(1000))],
         exc |-> "none"]

\* _step4_bending
column_step4(c) ==
    LET sd == c.section_data
        Resist(c1) ==
            [c1 EXCEPT
               !.My_Rd = FDiv(FDiv(FMul(c1.Wy, c.fy), F(GAMMA_M0)), F(1000000)),
               !.Mz_Rd = FDiv(FDiv(FMul(c1.Wz, c.fy), F(GAMMA_M0)), F(1000000))]
    IN  [obj |-> Resist(IF c.section_class <= 2
                        THEN [c EXCEPT !.Wy = FMul(sd.Wpl_y, F(1000)),
                                       !.Wz = FMul(sd.Wpl_z, F(1000))]
                        ELSE [c EXCEPT !.Wy = FMul(sd.Wel_y, F(1000)),
                                       !.Wz = FMul(sd.Wel_z, F(1000))]),
         exc |-> "none"]

\* _step5_shear
column_step5(c) ==
    LET sd == c.section_data
        Check(c3) == [c3 EXCEPT !.shear_ok = FLe(c3.shear_util, One)]
        Utilise(c2) == Check([c2 EXCEPT !.shear_util = Util(c.VEd, c2.Vpl_Rd)])
        Resist(c1) ==
            Utilise([c1 EXCEPT !.Vpl_Rd =
                       FDiv(FDiv(FMul(c1.Av, FDiv(c.fy, FSqrt(F(3)))),
                                 F(GAMMA_M0)), F(1000))])
    IN  [obj |-> Resist([c EXCEPT !.Av =
                    FMax(FAdd(FSub(FMul(sd.A, F(100)),
                                   FMul(FMul(F(2), sd.b), sd.tf)),
                              FMul(FAdd(sd.tw, FMul(F(2), sd.r)), sd.tf)),
                         FMul(FMul(One, sd.hi), sd.tw))]),
         exc |-> "none"]

\* _step6_conservative_combined without the axial term
column_step6_moments_only(c) ==
    LET Term(sum, demand, capacity) ==
            IF FPos(capacity) THEN FAdd(sum, FDiv(demand, capacity)) ELSE sum
        Check(c1) == [c1 EXCEPT !.conservative_ok = FLe(c1.conservative_util, One)]
    IN  [obj |-> Check([c EXCEPT !.conservative_util =
                          Term(Term(Zero, FAbs(c.My_Ed), c.My_Rd),
                               FAbs(c.Mz_Ed), c.Mz_Rd)]),
         exc |-> "none"]

\* _step6_conservative_combined: sum(terms) over the appended terms
column_step6(c) ==
    LET Term(sum, demand, capacity) ==
            IF FPos(capacity) THEN FAdd(sum, FDiv(demand, capacity)) ELSE sum
        Check(c1) == [c1 EXCEPT !.conservative_ok = FLe(c1.conservative_util, One)]
    IN  [obj |-> Check([c EXCEPT !.conservative_util =
                          Term(Term(Term(Zero, c.NEd, c.NRd),
                                    FAbs(c.My_Ed), c.My_Rd),
                               FAbs(c.Mz_Ed), c.Mz_Rd)]),
         exc |-> "none"]

\* the class 1 and 2 branch of _step7_alternative_combined (A # 0)
AlternativeCombined(c) ==
    LET sd == c.section_data
        A_mm2 == FMul(sd.A, F(100))
        Term(sum, demand, capacity, power) ==
            IF FPos(capacity) THEN FAdd(sum, FPow(FDiv(demand, capacity), power))
            ELSE sum
        Check(c3) == [c3 EXCEPT !.alternative_ok = FLe(c3.alternative_util, One)]
        Interact(c2) ==
            Check([c2 EXCEPT !.alternative_util =
                     Term(Term(Zero, FAbs(c.My_Ed), c2.MN_y_Rd, c2.alpha_interact),
                          FAbs(c.Mz_Ed), c2.MN_z_Rd, c2.beta_interact)])
        Reduce(c1, n) ==
            Interact([c1 EXCEPT
               !.MN_y_Rd =
                   IF FLt(c1.a_w, One)
                   THEN FMin(FDiv(FMul(c.My_Rd, FSub(One, n)),
                                  FSub(One, FMul(Dec(5, 1), c1.a_w))),
                             c.My_Rd)
                   ELSE FMul(c.My_Rd, FSub(One, n)),
               !.MN_z_Rd =
                   IF FLe(n, c1.a_w) THEN c.Mz_Rd
                   ELSE FMul(c.Mz_Rd,
                             FSub(One,
                                  IF FPos(FSub(One, c1.a_w))
                                  THEN FPowInt(FDiv(FSub(n, c1.a_w),
                                                    FSub(One, c1.a_w)), 2)
                                  ELSE One)),
               !.alpha_interact = F(2),
               !.beta_interact = FMax(One, FMul(F(5), n))])
    IN  Reduce([c EXCEPT !.a_w =
                   FMin(FDiv(FSub(A_mm2, FMul(FMul(F(2), sd.b), sd.tf)), A_mm2),
                        Dec(5, 1))],
               IF FPos(c.NRd) THEN FDiv(c.NEd, c.NRd) ELSE Zero)

\* _step7_alternative_combined without its early return for class 3 and 4
column_step7_every_class(c) ==
    IF IsZero(c.section_data.A)
    THEN [obj |-> c, exc |-> "ZeroDivisionError"]
    ELSE [obj |-> AlternativeCombined(c), exc |-> "none"]

\* _step7_alternative_combined
column_step7(c) ==
    IF c.section_class > 2
    THEN [obj |-> [c EXCEPT !.alternative_util = c.conservative_util,
                            !.alternative_ok = c.conservative_ok,
                            !.MN_y_Rd = c.My_Rd, !.MN_z_Rd = c.Mz_Rd],
          exc |-> "none"]
    ELSE IF IsZero(c.section_data.A)
    THEN [obj |-> c, exc |-> "ZeroDivisionError"]
    ELSE [obj |-> AlternativeCombined(c), exc |-> "none"]

\* Phi of the flexural buckling curve
FlexPhi(alpha, lam) ==
    FMul(Dec(5, 1),
         FAdd(FAdd(One, FMul(alpha, FSub(lam, Dec(2, 1)))), FPowInt(lam, 2)))

\* chi without the cap at 1
FlexChiUncapped(phi, lam) ==
    LET disc == FSub(FPowInt(phi, 2), FPowInt(lam, 2))
    IN  IF FPos(disc) THEN FDiv(One, FAdd(phi, FSqrt(disc))) ELSE One

\* chi of the flexural buckling curve: discriminant guard, then the cap at 1
FlexChi(phi, lam) ==
    LET disc == FSub(FPowInt(phi, 2), FPowInt(lam, 2))
    IN  FMin(IF FPos(disc) THEN FDiv(One, FAdd(phi, FSqrt(disc))) ELSE One, One)

\* the curves (curve_y, curve_z) of Table 6.2 in _step8_flexural_buckling
FlexCurves(sd) ==
    IF FGt(FDiv(sd.h, sd.b), Dec(12, 1))
    THEN IF FLe(sd.tf, F(40)) THEN <<"a", "b">> ELSE <<"b", "c">>
    ELSE IF FLe(sd.tf, F(100)) THEN <<"b", "c">> ELSE <<"d", "d">>

\* _step8_flexural_buckling (section_data.b is not zero)
column_step8(c) ==
    LET sd == c.section_data
        A_mm2 == FMul(sd.A, F(100))
        Slender(len, i_mm, lambda_1) ==
            IF FPos(i_mm) THEN FDiv(FMul(len, F(1000)), FMul(i_mm, lambda_1))
            ELSE Zero
        Resist(c5) ==
            [c5 EXCEPT !.Nb_Rd =
                FDiv(FDiv(FMul(FMul(FMin(c5.chi_y, c5.chi_z), A_mm2), c.fy),
                          F(GAMMA_M1)), F(1000))]
        Chi(c4) ==
            Resist([c4 EXCEPT !.chi_y = FlexChi(c4.Phi_y, c4.lambda_bar_y),
                              !.chi_z = FlexChi(c4.Phi_z, c4.lambda_bar_z)])
        Phi(c3) ==
            Chi([c3 EXCEPT !.Phi_y = FlexPhi(c3.alpha_y, c3.lambda_bar_y),
                           !.Phi_z = FlexPhi(c3.alpha_z, c3.lambda_bar_z)])
        Curves(c2, curves) ==
            Phi([c2 EXCEPT !.curve_y = curves[1], !.curve_z = curves[2],
                           !.alpha_y = ALPHA_FLEX(curves[1]),
                           !.alpha_z = ALPHA_FLEX(curves[2])])
        Slenderness(c1) ==
            Curves([c1 EXCEPT
                      !.lambda_bar_y = Slender(c.Lcr_y, c1.iy_mm, c1.lambda_1),
                      !.lambda_bar_z = Slender(c.Lcr_z, c1.iz_mm, c1.lambda_1)],
                   FlexCurves(sd))
    IN  IF IsZero(A_mm2) THEN [obj |-> c, exc |-> "ZeroDivisionError"]
        ELSE [obj |-> Slenderness(
                        [c EXCEPT
                           !.iy_mm = FSqrt(FDiv(FMul(sd.Iy, F(10000)), A_mm2)),
                           !.iz_mm = FSqrt(FDiv(FMul(sd.Iz, F(10000)), A_mm2)),
                           !.lambda_1 = FMul(Dec(939, 1), c.epsilon)]),
              exc |-> "none"]

\* _step9_ltb (section_data.b and .Iz are not zero): the division by
\* L_mm ** 2 raises for Lcr_LT = 0, after the first three fields are written
column_step9(c) ==
    LET sd == c.section_data
        Iz_mm4 == FMul(sd.Iz, F(10000))
        It_mm4 == FMul(sd.It, F(10000))
        L2 == FPowInt(FMul(c.Lcr_LT, F(1000)), 2)
        pi2E == FMul(FPowInt(Pi, 2), F(E_STEEL))
        beta_LT == Dec(75, 2)
        lambda_LT_0 == Dec(4, 1)
        Resist(c5) ==
            [c5 EXCEPT !.Mb_Rd = FDiv(FDiv(FMul(FMul(c5.chi_LT, c.Wy), c.fy),
                                           F(GAMMA_M1)), F(1000000))]
        Chi(c4) ==
            Resist([c4 EXCEPT !.chi_LT = ChiLT(c4.Phi_LT, c4.lambda_LT, beta_LT)])
        Phi(c3) ==
            Chi([c3 EXCEPT !.Phi_LT =
                   FMul(Dec(5, 1),
                        FAdd(FAdd(One, FMul(c3.alpha_LT,
                                            FSub(c3.lambda_LT, lambda_LT_0))),
                             FMul(beta_LT, FPowInt(c3.lambda_LT, 2))))])
        Slender(c2) ==
            Phi([c2 EXCEPT !.lambda_LT =
                   IF FPos(c2.Mcr)
                   THEN FSqrt(FDiv(FMul(c.Wy, c.fy), FMul(c2.Mcr, F(1000000))))
                   ELSE F(Sentinel)])
        Critical(c1) ==
            IF IsZero(L2) THEN [obj |-> c1, exc |-> "ZeroDivisionError"]
            ELSE [obj |-> Slender([c1 EXCEPT !.Mcr =
                     FDiv(FMul(FDiv(FMul(pi2E, Iz_mm4), L2),
                               FSqrt(FAdd(FDiv(c1.Iw_mm6, Iz_mm4),
                                          FDiv(FMul(FMul(L2, F(G_STEEL)), It_mm4),
                                               FMul(pi2E, Iz_mm4))))),
                          F(1000000))]),
                  exc |-> "none"]
        Curve(curve) ==
            Critical([c EXCEPT !.Iw_mm6 = FMul(sd.Iw, F(1000000)),
                               !.buckling_curve_LT = curve,
                               !.alpha_LT = ALPHA_LT(curve)])
    IN  Curve(IF FLe(FDiv(sd.h, sd.b), F(2)) THEN "b" ELSE "c")

\* 1 - NEd / Ncr if Ncr > 0 else 1.0
NRatio(NEd, Ncr) == IF FPos(Ncr) THEN FSub(One, FDiv(NEd, Ncr)) ELSE One

\* mu of Annex A: ratio / (1 - chi * NEd / Ncr), 1.0 where that is undefined
MuFactor(ratio, chi, NEd, Ncr) ==
    IF FPos(Ncr) /\ ~IsZero(FSub(One, FDiv(FMul(chi, NEd), Ncr)))
    THEN FDiv(ratio, FSub(One, FDiv(FMul(chi, NEd), Ncr)))
    ELSE One

\* 1 + (w - 1) * ((2 - 14 * Cm ** 2 * lam_max ** 2 / w ** 5) * npl - xLT)
C14(w, Cm, lam_max, npl, xLT) ==
    FAdd(One,
         FMul(FSub(w, One),
              FSub(FMul(FSub(F(2),
                             FDiv(FMul(FMul(F(14), FPowInt(Cm, 2)),
                                       FPowInt(lam_max, 2)),
                                  FPowInt(w, 5))),
                        npl),
                   xLT)))

\* 1 + (w - 1) * ((2 - 1.6 / w * Cm ** 2 * lam_max
\*                   - 1.6 / w * Cm ** 2 * lam_max ** 2) * npl - xLT)
C16(w, Cm, lam_max, npl, xLT) ==
    FAdd(One,
         FMul(FSub(w, One),
              FSub(FMul(FSub(FSub(F(2),
                                  FMul(FMul(FDiv(Dec(16, 1), w), FPowInt(Cm, 2)),
                                       lam_max)),
                             FMul(FMul(FDiv(Dec(16, 1), w), FPowInt(Cm, 2)),
                                  FPowInt(lam_max, 2))),
                        npl),
                   xLT)))

\* the sum of an interaction equation: each term added if its resistance > 0
Interaction(NEd, chi_NRk, k_y, My_Ed, chi_LT_MyRk, k_z, Mz_Ed, MzRk_gM1) ==
    LET Term(sum, demand, capacity) ==
            IF FPos(capacity) THEN FAdd(sum, FDiv(demand, capacity)) ELSE sum
    IN  Term(Term(Term(Zero, NEd, chi_NRk), FMul(k_y, My_Ed), chi_LT_MyRk),
             FMul(k_z, Mz_Ed), MzRk_gM1)

\* _step10_combined_buckling after the critical forces Ncr_y and Ncr_z: the
\* local variables k, assigned in program order
\* (section_data.A, .Iy, .Wel_y, .Wel_z are not zero; Lcr_LT is not zero
\* after step 9)
AnnexA(c, Ncr_y, Ncr_z) ==
    LET sd == c.section_data
        Locals ==
            [A_mm2 |-> FMul(sd.A, F(100)),
             Iy_mm4 |-> FMul(sd.Iy, F(10000)),
             Iz_mm4 |-> FMul(sd.Iz, F(10000)),
             It_mm4 |-> FMul(sd.It, F(10000)),
             NEd |-> c.NEd, My_Ed |-> FAbs(c.My_Ed), Mz_Ed |-> FAbs(c.Mz_Ed),
             Lcr_LT_mm |-> FMul(c.Lcr_LT, F(1000)),
             Wel_y |-> FMul(sd.Wel_y, F(1000)), Wpl_y |-> FMul(sd.Wpl_y, F(1000)),
             Wel_z |-> FMul(sd.Wel_z, F(1000)), Wpl_z |-> FMul(sd.Wpl_z, F(1000)),
             Ncr_y |-> Ncr_y, Ncr_z |-> Ncr_z,
             chi_LT |-> c.chi_LT, lam_0 |-> c.lambda_LT, lam_z |-> c.lambda_bar_z]
        Torsional(k) ==
            k @@ [i0_sq |-> FDiv(FAdd(k.Iy_mm4, k.Iz_mm4), k.A_mm2),
                  NRk |-> FDiv(FMul(k.A_mm2, c.fy), F(1000)),
                  My_Rk |-> FDiv(FMul(IF c.section_class <= 2 THEN k.Wpl_y
                                      ELSE k.Wel_y, c.fy), F(1000000)),
                  Mz_Rk |-> FDiv(FMul(IF c.section_class <= 2 THEN k.Wpl_z
                                      ELSE k.Wel_z, c.fy), F(1000000)),
                  Mpl_y_Rd |-> FDiv(FDiv(FMul(k.Wpl_y, c.fy), F(GAMMA_M1)),
                                    F(1000000)),
                  Mpl_z_Rd |-> FDiv(FDiv(FMul(k.Wpl_z, c.fy), F(GAMMA_M1)),
                                    F(1000000)),
                  aLT |-> FMax(FSub(One, FDiv(k.It_mm4, k.Iy_mm4)), Zero),
                  Cmy0 |-> FAdd(FAdd(Dec(79, 2), FMul(Dec(21, 2), c.psi_y)),
                                FDiv(FMul(FMul(Dec(36, 2),
                                               FSub(c.psi_y, Dec(33, 2))), k.NEd),
                                     k.Ncr_y)),
                  Cmz0 |-> FAdd(FAdd(Dec(79, 2), FMul(Dec(21, 2), c.psi_z)),
                                FDiv(FMul(FMul(Dec(36, 2),
                                               FSub(c.psi_z, Dec(33, 2))), k.NEd),
                                     k.Ncr_z)),
                  eps_y |-> IF FPos(k.NEd) /\ FPos(k.Wel_y)
                            THEN FMul(FMul(FDiv(k.My_Ed, k.NEd),
                                           FDiv(k.A_mm2, k.Wel_y)), F(1000))
                            ELSE Zero,
                  nz_ratio |-> NRatio(k.NEd, k.Ncr_z)]
        Threshold(k) ==
            k @@ [Ncr_T |-> FDiv(FMul(FDiv(One, k.i0_sq),
                                      FAdd(FMul(F(G_STEEL), k.It_mm4),
                                           FDiv(FMul(FMul(FPowInt(Pi, 2), F(E_STEEL)),
                                                     c.Iw_mm6),
                                                FPowInt(k.Lcr_LT_mm, 2)))),
                                 F(1000))]
        Moment(k) ==
            k @@ [threshold |->
                      FMul(FMul(Dec(2, 1), FSqrt(One)),
                           FSqrt(FSqrt(FMax(FMul(k.nz_ratio,
                                                 NRatio(k.NEd, k.Ncr_T)),
                                            Zero)))),
                  denom_cmy |-> FAdd(One, FMul(k.eps_y, k.aLT)),
                  nz_fac |-> FMax(k.nz_ratio, Dec(1, 10)),
                  nT_fac |-> IF FPos(k.Ncr_T)
                             THEN FMax(FSub(One, FDiv(k.NEd, k.Ncr_T)), Dec(1, 10))
                             ELSE One]
        Uniform(k) ==
            k @@ [Cmy |-> IF FLe(k.lam_0, k.threshold) \/ IsZero(k.denom_cmy)
                          THEN k.Cmy0
                          ELSE FAdd(k.Cmy0,
                                    FDiv(FMul(FMul(FSub(One, k.Cmy0), k.eps_y), k.aLT),
                                         k.denom_cmy)),
                  Cmz |-> k.Cmz0]
        Lateral(k) ==
            k @@ [CmLT |-> IF FLe(k.lam_0, k.threshold) THEN One
                           ELSE FMax(FDiv(FMul(FPowInt(k.Cmy, 2), k.aLT),
                                          FMul(k.nz_fac, k.nT_fac)),
                                     One),
                  my_term |-> IF FPos(FMul(k.chi_LT, k.Mpl_y_Rd))
                              THEN FDiv(k.My_Ed, FMul(k.chi_LT, k.Mpl_y_Rd))
                              ELSE Zero,
                  mz_term |-> IF FPos(k.Mpl_z_Rd) THEN FDiv(k.Mz_Ed, k.Mpl_z_Rd)
                              ELSE Zero,
                  CCM |-> FMul(FMul(k.Cmy, k.chi_LT), k.Mpl_y_Rd),
                  cLT_denom |-> FAdd(F(5), FPowInt(k.lam_z, 4)),
                  dLT_denom |-> FAdd(Dec(1, 1), FPowInt(k.lam_z, 4)),
                  npl |-> FDiv(k.NEd, FDiv(k.NRk, F(GAMMA_M1))),
                  wy |-> IF FPos(k.Wel_y)
                         THEN FMin(FDiv(k.Wpl_y, k.Wel_y), Dec(15, 1)) ELSE One,
                  wz |-> IF FPos(k.Wel_z)
                         THEN FMin(FDiv(k.Wpl_z, k.Wel_z), Dec(15, 1)) ELSE One,
                  lam_max |-> FMax(c.lambda_bar_y, c.lambda_bar_z)]
        Auxiliary(k) ==
            k @@ [bLT |-> FMul(FMul(FMul(FMul(Dec(5, 1), k.aLT), FPowInt(k.lam_0, 2)),
                                    k.my_term),
                               k.mz_term),
                  cLT |-> IF FPos(k.CCM)
                          THEN FDiv(FMul(FDiv(FMul(FMul(F(10), k.aLT),
                                                   FPowInt(k.lam_0, 2)),
                                              k.cLT_denom),
                                         k.My_Ed),
                                    k.CCM)
                          ELSE Zero,
                  dLT |-> IF FPos(k.CCM) /\ FPos(FMul(k.Cmz, k.Mpl_z_Rd))
                          THEN FMul(FDiv(FMul(FMul(F(2), k.aLT), k.lam_0),
                                         k.dLT_denom),
                                    FDiv(FMul(FDiv(k.My_Ed, k.CCM), k.Mz_Ed),
                                         FMul(k.Cmz, k.Mpl_z_Rd)))
                          ELSE Zero,
                  eLT |-> IF FPos(k.CCM)
                          THEN FDiv(FMul(FDiv(FMul(FMul(Dec(17, 1), k.aLT), k.lam_0),
                                              k.dLT_denom),
                                         k.My_Ed),
                                    k.CCM)
                          ELSE Zero,
                  ny_ratio |-> NRatio(k.NEd, k.Ncr_y),
                  nz_ratio_f |-> NRatio(k.NEd, k.Ncr_z)]
        Cij(k) ==
            k @@ [Cyy |-> FMax(C16(k.wy, k.Cmy, k.lam_max, k.npl, k.bLT),
                               IF FPos(k.Wpl_y) THEN FDiv(k.Wel_y, k.Wpl_y) ELSE One),
                  Cyz |-> FMax(C14(k.wz, k.Cmz, k.lam_max, k.npl, k.cLT),
                               IF FPos(k.Wpl_z) /\ FPos(k.wy)
                               THEN FDiv(FMul(FMul(Dec(6, 1),
                                                   FSqrt(FDiv(k.wz, k.wy))),
                                              k.Wel_z),
                                         k.Wpl_z)
                               ELSE One),
                  Czy |-> FMax(C14(k.wy, k.Cmy, k.lam_max, k.npl, k.dLT),
                               IF FPos(k.Wpl_y) /\ FPos(k.wz)
                               THEN FDiv(FMul(FMul(Dec(6, 1),
                                                   FSqrt(FDiv(k.wy, k.wz))),
                                              k.Wel_y),
                                         k.Wpl_y)
                               ELSE One),
                  Czz |-> FMax(C16(k.wz, k.Cmz, k.lam_max, k.npl, k.eLT),
                               IF FPos(k.Wpl_z) THEN FDiv(k.Wel_z, k.Wpl_z) ELSE One),
                  mu_y |-> MuFactor(k.ny_ratio, c.chi_y, k.NEd, k.Ncr_y),
                  mu_z |-> MuFactor(k.nz_ratio_f, c.chi_z, k.NEd, k.Ncr_z),
                  ny_fac |-> FMax(k.ny_ratio, Dec(1, 10)),
                  nz_fac_k |-> FMax(k.nz_ratio_f, Dec(1, 10))]
        Kij(k) ==
            k @@ [kyy |-> IF FPos(k.Cyy)
                          THEN FDiv(FDiv(FMul(FMul(k.Cmy, k.CmLT), k.mu_y), k.ny_fac),
                                    k.Cyy)
                          ELSE F(Sentinel),
                  kyz |-> IF FPos(k.Cyz) /\ FPos(k.wy)
                          THEN FMul(FMul(FDiv(FDiv(FMul(k.Cmz, k.mu_y), k.nz_fac_k),
                                              k.Cyz),
                                         Dec(6, 1)),
                                    FSqrt(FDiv(k.wz, k.wy)))
                          ELSE F(Sentinel),
                  kzy |-> IF FPos(k.Czy) /\ FPos(k.wz)
                          THEN FMul(FMul(FDiv(FDiv(FMul(FMul(k.Cmy, k.CmLT), k.mu_z),
                                                   k.ny_fac),
                                              k.Czy),
                                         Dec(6, 1)),
                                    FSqrt(FDiv(k.wy, k.wz)))
                          ELSE F(Sentinel),
                  kzz |-> IF FPos(k.Czz)
                          THEN FDiv(FDiv(FMul(k.Cmz, k.mu_z), k.nz_fac_k), k.Czz)
                          ELSE F(Sentinel),
                  chi_y_NRk |-> FDiv(FMul(c.chi_y, k.NRk), F(GAMMA_M1)),
                  chi_z_NRk |-> FDiv(FMul(c.chi_z, k.NRk), F(GAMMA_M1)),
                  chi_LT_MyRk |-> FDiv(FMul(k.chi_LT, k.My_Rk), F(GAMMA_M1)),
                  MzRk_gM1 |-> FDiv(k.Mz_Rk, F(GAMMA_M1))]
        Equations(k) ==
            k @@ [eq6_61 |-> Interaction(k.NEd, k.chi_y_NRk, k.kyy, k.My_Ed,
                                         k.chi_LT_MyRk, k.kyz, k.Mz_Ed, k.MzRk_gM1),
                  eq6_62 |-> Interaction(k.NEd, k.chi_z_NRk, k.kzy, k.My_Ed,
                                         k.chi_LT_MyRk, k.kzz, k.Mz_Ed, k.MzRk_gM1)]
        Result(k) ==
            [c EXCEPT !.Ncr_y = k.Ncr_y, !.Ncr_z = k.Ncr_z, !.Ncr_T = k.Ncr_T,
                      !.aLT = k.aLT, !.lambda_bar_0 = k.lam_0,
                      !.Cmy = k.Cmy, !.CmLT = k.CmLT, !.Cmz = k.Cmz,
                      !.kyy = k.kyy, !.kyz = k.kyz, !.kzy = k.kzy, !.kzz = k.kzz,
                      !.eq6_61 = k.eq6_61, !.eq6_62 = k.eq6_62,
                      !.combined_buckling_ok =
                          FLe(k.eq6_61, One) /\ FLe(k.eq6_62, One)]
    IN  Result(Equations(Kij(Cij(Auxiliary(Lateral(Uniform(Moment(Threshold(
            Torsional(Locals))))))))))

\* _step10_combined_buckling: the divisions by Lcr_y_mm ** 2 and
\* Lcr_z_mm ** 2 raise for a zero length, the second after Ncr_y is written
column_step10(c) ==
    LET sd == c.section_data
        pi2E == FMul(FPowInt(Pi, 2), F(E_STEEL))
        Ncr(I_cm4, L_mm) ==
            FDiv(FDiv(FMul(pi2E, FMul(I_cm4, F(10000))), FPowInt(L_mm, 2)),
                 F(1000))
    IN  IF IsZero(c.Lcr_y) THEN [obj |-> c, exc |-> "ZeroDivisionError"]
        ELSE IF IsZero(c.Lcr_z)
        THEN [obj |-> [c EXCEPT !.Ncr_y = Ncr(sd.Iy, FMul(c.Lcr_y, F(1000)))],
              exc |-> "ZeroDivisionError"]
        ELSE [obj |-> AnnexA(c, Ncr(sd.Iy, FMul(c.Lcr_y, F(1000))),
                             Ncr(sd.Iz, FMul(c.Lcr_z, F(1000)))),
              exc |-> "none"]

\* the aggregate with Nb_Rd > NEd in place of Nb_Rd >= NEd
ColumnOverallStrict(c) ==
    /\ c.shear_ok
    /\ c.conservative_ok
    /\ c.alternative_ok
    /\ FGt(c.Nb_Rd, c.NEd)
    /\ FPos(c.chi_LT)
    /\ c.combined_buckling_ok

\* the aggregate of check_all
ColumnOverall(c) ==
    /\ c.shear_ok
    /\ c.conservative_ok
    /\ c.alternative_ok
    /\ FGe(c.Nb_Rd, c.NEd)
    /\ FPos(c.chi_LT)
    /\ c.combined_buckling_ok

(***************************************************************************)
(* TrussMemberDesignEC3                                                    *)
(***************************************************************************)
\* _ALPHA_FLEX of truss_member.py
TRUSS_ALPHA_FLEX_KEYS == {"a0", "a", "b", "c", "d"}
TRUSS_ALPHA_FLEX(c) ==
    CASE c = "a0" -> Dec(13, 2) [] c = "a" -> Dec(21, 2) [] c = "b" -> Dec(34, 2)
      [] c = "c" -> Dec(49, 2) [] c = "d" -> Dec(76, 2)

\* _FU_TABLE.get(grade, 510.0)
FU_TABLE_get(g) ==
    CASE g = S235 -> F(360) [] g = S275 -> F(430)
      [] g = S355 -> F(510) [] g = S450 -> F(550)
      [] OTHER -> F(510)

GAMMA_M2 == Dec(125, 2)

\* the result fields of the dataclass at their defaults (truss_member.py 60-95)
TrussDefaults ==
    [fy |-> Zero, fu |-> Zero, epsilon |-> Zero,
     c_h |-> Zero, ct_h |-> Zero, c_b |-> Zero, ct_b |-> Zero,
     section_class |-> 0,
     NRd |-> Zero,
     lambda_1 |-> Zero, lambda_bar_ip |-> Zero, lambda_bar_oop |-> Zero,
     lambda_bar |-> Zero, alpha_imp |-> Zero, Phi |-> Zero, chi |-> Zero,
     Nb_Rd |-> Zero,
     compression_util |-> Zero, compression_ok |-> FALSE,
     Nt_Rd |-> Zero,
     tension_util |-> Zero, tension_ok |-> FALSE,
     overall_ok |-> FALSE]

TrussResultFields == DOMAIN TrussDefaults

\* _step1_yield_strength
truss_step1(t) ==
    LET r == get_fy(t.steel_grade, t.section_data.t)
    IN  IF r.exc # "none" THEN [obj |-> t, exc |-> r.exc]
        ELSE [obj |-> [t EXCEPT !.fy = r.fy,
                                !.epsilon = FSqrt(FDiv(F(235), r.fy)),
                                !.fu = FU_TABLE_get(StrUpper(t.steel_grade))],
              exc |-> "none"]

\* _step2_classify (section_data.t is not zero)
truss_step2(t) ==
    LET sd == t.section_data
        c_h == FSub(sd.h, FMul(F(2), sd.t))
        ct_h == FDiv(c_h, sd.t)
        c_b == FSub(sd.b, FMul(F(2), sd.t))
        ct_b == FDiv(c_b, sd.t)
        ct == FMax(ct_h, ct_b)
    IN  [obj |-> [t EXCEPT !.c_h = c_h, !.ct_h = ct_h, !.c_b = c_b,
                           !.ct_b = ct_b,
                           !.section_class = ClassOf(ct, t.epsilon, 33, 38, 42)],
         exc |-> "none"]

\* _step3_cross_section_resistance
truss_step3(t) ==
    LET A_mm2 == FMul(t.section_data.A, F(100))
    IN  [obj |-> [t EXCEPT !.NRd = FDiv(FDiv(FMul(A_mm2, t.fy), F(GAMMA_M0)),
                                        F(1000))],
         exc |-> "none"]

\* _step4_flexural_buckling: the lookup _ALPHA_FLEX[self.buckling_curve]
\* raises KeyError for a curve that is no key, after the slenderness fields
\* are written
truss_step4(t) ==
    LET sd == t.section_data
        lambda_1 == FMul(Dec(939, 1), t.epsilon)
        lambda_bar_ip == IF FPos(sd.iy) /\ FPos(t.Lcr_ip)
                         THEN FDiv(FMul(t.Lcr_ip, F(1000)), FMul(sd.iy, lambda_1))
                         ELSE Zero
        lambda_bar_oop == IF FPos(sd.iz) /\ FPos(t.Lcr_oop)
                          THEN FDiv(FMul(t.Lcr_oop, F(1000)), FMul(sd.iz, lambda_1))
                          ELSE Zero
        lambda_bar == FMax(lambda_bar_ip, lambda_bar_oop)
        t1 == [t EXCEPT !.lambda_1 = lambda_1, !.lambda_bar_ip = lambda_bar_ip,
                        !.lambda_bar_oop = lambda_bar_oop,
                        !.lambda_bar = lambda_bar]
    IN  IF t.buckling_curve \notin TRUSS_ALPHA_FLEX_KEYS
        THEN [obj |-> t1, exc |-> "KeyError"]
        ELSE
        LET alpha_imp == TRUSS_ALPHA_FLEX(t.buckling_curve)
            Phi == FlexPhi(alpha_imp, lambda_bar)
            chi == FlexChi(Phi, lambda_bar)
            A_mm2 == FMul(sd.A, F(100))
        IN  [obj |-> [t1 EXCEPT !.alpha_imp = alpha_imp, !.Phi = Phi,
                        !.chi = chi,
                        !.Nb_Rd = FDiv(FDiv(FMul(FMul(chi, A_mm2), t.fy),
                                            F(GAMMA_M1)), F(1000))],
             exc |-> "none"]

\* demand / capacity if capacity > 0, else 999.0 whatever the demand
TrussUtilSentinel(demand, capacity) ==
    IF FPos(capacity) THEN FDiv(demand, capacity) ELSE F(Sentinel)

\* demand / capacity if capacity > 0, else 999.0 if demand > 0 else 0.0
TrussUtil(demand, capacity) ==
    IF FPos(capacity) THEN FDiv(demand, capacity)
    ELSE IF FPos(demand) THEN F(Sentinel) ELSE Zero

\* _step5_compression_check
truss_step5(t) ==
    LET util == TrussUtil(t.NEd_compression, t.Nb_Rd)
    IN  [obj |-> [t EXCEPT !.compression_util = util,
                           !.compression_ok = FLe(util, One)],
         exc |-> "none"]

\* a step 6 taking the net-section capacity whenever holes are declared
truss_step6_unguarded(t) ==
    LET Npl_Rd == t.NRd
        A_net_mm2 == FMul(t.A_net, F(100))
        Nu_Rd == FDiv(FDiv(FMul(FMul(Dec(9, 1), A_net_mm2), t.fu), GAMMA_M2),
                      F(1000))
    IN  [obj |-> [t EXCEPT !.Nt_Rd = IF t.has_holes
                                     THEN FMin(Npl_Rd, Nu_Rd) ELSE Npl_Rd],
         exc |-> "none"]

\* _step6_tension_resistance
truss_step6(t) ==
    LET Npl_Rd == t.NRd
        A_net_mm2 == FMul(t.A_net, F(100))
        Nu_Rd == FDiv(FDiv(FMul(FMul(Dec(9, 1), A_net_mm2), t.fu), GAMMA_M2),
                      F(1000))
    IN  [obj |-> [t EXCEPT !.Nt_Rd = IF t.has_holes /\ FPos(t.A_net)
                                     THEN FMin(Npl_Rd, Nu_Rd) ELSE Npl_Rd],
         exc |-> "none"]

\* _step7_tension_check
truss_step7(t) ==
    LET util == TrussUtil(t.NEd_tension, t.Nt_Rd)
    IN  [obj |-> [t EXCEPT !.tension_util = util,
                           !.tension_ok = FLe(util, One)],
         exc |-> "none"]

\* an aggregate of the compression check alone
TrussOverallCompression(t) == t.compression_ok

\* the aggregate of check_all
TrussOverall(t) == t.compression_ok /\ t.tension_ok

(***************************************************************************)
(* StructureDesigner: the governing check reported for a checked member    *)
(***************************************************************************)
\* utils of _design_beam without the deflection entry
BeamUtilsNoDeflection(b) ==
    << <<"bending", b.bending_util>>, <<"shear", b.shear_util>>,
       <<"combined", b.combined_util>>, <<"LTB", b.ltb_util>> >>

\* utils of _design_beam: (label, utilisation) in list order
BeamUtils(b) ==
    << <<"bending", b.bending_util>>, <<"shear", b.shear_util>>,
       <<"combined", b.combined_util>>, <<"LTB", b.ltb_util>>,
       <<"deflection", b.deflection_util>> >>

\* utils of _design_column without the appended flexural buckling entry
ColumnUtilsNoBuckling(c) ==
    << <<"shear", c.shear_util>>,
       <<"conservative combined", c.conservative_util>>,
       <<"alternative combined", c.alternative_util>>,
       <<"Eq.6.61", c.eq6_61>>, <<"Eq.6.62", c.eq6_62>> >>

\* utils of _design_column: NEd / Nb_Rd is appended only if Nb_Rd > 0
ColumnUtils(c) ==
    << <<"shear", c.shear_util>>,
       <<"conservative combined", c.conservative_util>>,
       <<"alternative combined", c.alternative_util>> >>
    \o (IF FPos(c.Nb_Rd)
        THEN << <<"flexural buckling", FDiv(c.NEd, c.Nb_Rd)>> >> ELSE <<>>)
    \o << <<"Eq.6.61", c.eq6_61>>, <<"Eq.6.62", c.eq6_62>> >>

\* utils of _design_truss_member
TrussUtils(t) ==
    << <<"compression", t.compression_util>>, <<"tension", t.tension_util>> >>

RECURSIVE MaxByValueLast(_, _, _)
\* the scan replacing the best entry on >= : the last of equal values
MaxByValueLast(utils, i, best) ==
    IF i > Len(utils) THEN best
    ELSE MaxByValueLast(utils, i + 1,
                        IF FGe(utils[i][2], utils[best][2]) THEN i ELSE best)

RECURSIVE MaxByValue(_, _, _)
\* max(utils, key=lambda x: x[1]): the scan from entry i with the best entry
\* so far, replaced on a strictly larger value (the first of equal values)
MaxByValue(utils, i, best) ==
    IF i > Len(utils) THEN best
    ELSE MaxByValue(utils, i + 1,
                    IF FGt(utils[i][2], utils[best][2]) THEN i ELSE best)

\* the ElementDesignResult fields taken from the design object
DesignResult(utils, overall_ok) ==
    [overall_ok |-> overall_ok,
     max_utilisation |-> utils[MaxByValue(utils, 2, 1)][2],
     governing_check |-> utils[MaxByValue(utils, 2, 1)][1]]

\* no ElementDesignResult has been returned
NoResult == [overall_ok |-> FALSE, max_utilisation |-> Zero, governing_check |-> ""]

(***************************************************************************)
(* Inputs.  Loads are multiples 0..MaxLoad of a unit load.                 *)
(***************************************************************************)
MaxLoad == 2
MaxCalls == 1
LoadLevels == 0..MaxLoad

s275 == <<"s","2","7","5">>
S460 == <<"S","4","6","0">>
GradeInputs == {s275, S355, S460}

\* SteelSectionData records (section_data.py): a rolled beam section, the
\* same with a thin web, a record with no area and no clear web height, and
\* a stocky column section of 60 cm2
SecUB ==
    [h |-> Dec(3044, 1), b |-> Dec(1234, 1), tw |-> Dec(71, 1),
     tf |-> Dec(107, 1), r |-> Dec(89, 1), d |-> Dec(2652, 1), hi |-> F(283),
     A |-> Dec(472, 1), Iy |-> F(7171), Iz |-> F(336), It |-> Dec(148, 1),
     Iw |-> F(72000), Wel_y |-> F(471), Wpl_y |-> F(539),
     Wel_z |-> Dec(545, 1), Wpl_z |-> Dec(854, 1)]
SecThinWeb == [SecUB EXCEPT !.tw = F(3)]
SecNoShearArea == [SecUB EXCEPT !.A = Zero, !.hi = Zero]
SecUC ==
    [h |-> F(206), b |-> F(204), tw |-> F(8),
     tf |-> Dec(125, 1), r |-> F(10), d |-> F(161), hi |-> F(181),
     A |-> F(60), Iy |-> F(4570), Iz |-> F(1770), It |-> F(25),
     Iw |-> F(166000), Wel_y |-> F(450), Wpl_y |-> F(497),
     Wel_z |-> F(174), Wpl_z |-> F(264)]
\* records with no section modulus about y-y
SecNoModulus == [SecUB EXCEPT !.Wel_y = Zero, !.Wpl_y = Zero]
ColNoModulus == [SecUC EXCEPT !.Wel_y = Zero, !.Wpl_y = Zero]
BeamSections == {SecUB, SecThinWeb, SecNoShearArea}
ColumnSections == {SecUC, SecUB}

\* HollowSectionData records (hollow_section_data.py): two square sections
SHS100 ==
    [h |-> F(100), b |-> F(100), t |-> F(5), A |-> Dec(187, 1),
     Iy |-> F(279), Iz |-> F(279), iy |-> Dec(386, 1), iz |-> Dec(386, 1),
     Wel_y |-> Dec(559, 1), Wpl_y |-> Dec(664, 1),
     Wel_z |-> Dec(559, 1), Wpl_z |-> Dec(664, 1)]
SHS200 ==
    [h |-> F(200), b |-> F(200), t |-> F(5), A |-> Dec(387, 1),
     Iy |-> F(2445), Iz |-> F(2445), iy |-> Dec(795, 1), iz |-> Dec(795, 1),
     Wel_y |-> F(245), Wpl_y |-> F(283), Wel_z |-> F(245), Wpl_z |-> F(283)]
TrussSections == {SHS100, SHS200}
\* records with no area and with a negative area
SHSNoArea == [SHS100 EXCEPT !.A = Zero]
SHSNegativeArea == [SHS100 EXCEPT !.A = FNeg(F(10))]

BeamSpan == F(6)

\* the constructor's keyword arguments, the rest at the dataclass defaults
BeamArgs(sd, grade, MEd, VEd, shear, moment, w, rp, dlt) ==
    [section_data |-> sd, steel_grade |-> grade, MEd |-> MEd, VEd |-> VEd,
     delta_max |-> F(20), span |-> BeamSpan,
     shear_at_i |-> shear, moment_at_i |-> moment, w_local |-> w,
     restraint_positions |-> rp, Lcr |-> None,
     deflection_limit_type |-> dlt]

\* per load level k: explicit MEd = 100 k kNm and VEd = 150 k kN; a uniform
\* load of 10 k kN/m with end shear 30 k kN; an end shear of 30 k kN alone;
\* an end moment of 20 k kNm alone, and one of 1.054 kNm (a uniform moment
\* diagram in both cases)
BeamLoads ==
    {<<F(k * 100), F(k * 150), Zero, Zero, Zero>> : k \in LoadLevels}
    \cup {<<Zero, Zero, F(k * 30000), Zero, FNeg(F(k * 10000))>> :
              k \in LoadLevels}
    \cup {<<Zero, Zero, F(k * 30000), Zero, Zero>> : k \in LoadLevels}
    \cup {<<Zero, Zero, Zero, F(k * 20000), Zero>> : k \in LoadLevels}
    \cup {<<Zero, Zero, Zero, F(1054), Zero>>}

RestraintInputs ==
    {None, Some(<<Zero, F(3), BeamSpan>>), Some(<<BeamSpan, F(3), Zero, F(3)>>)}
LimitTypes == {"other", "brittle", "cantilever"}

\* a constructed beam: the arguments after __post_init__, results at defaults
BeamObject(args) ==
    LET a == BeamPostInit(args)
    IN  [f \in (DOMAIN a) \cup BeamResultFields |->
            IF f \in DOMAIN a THEN a[f] ELSE BeamDefaults[f]]

\* flange thicknesses at and just above each threshold of _FY_TABLE
ThicknessInputs ==
    {F(16), Dec(1601, 2), F(40), Dec(4001, 2), F(63), Dec(6301, 2),
     F(80), Dec(8001, 2), F(999), F(1000)}
TableGrades == {S235, s275, S355, S450}

\* a 2 m beam with no deflection, end shear 148.7 kN, a uniform load of
\* 148.7 kN/m and an end moment of -24.4 kNm
ShortBeamArgs ==
    [BeamArgs(SecUB, S355, Zero, Zero, F(148700), FNeg(F(24400)),
              FNeg(F(148700)), None, "other")
        EXCEPT !.span = F(2), !.delta_max = Zero]

\* restraint lists holding 0 and span and a position off the member
OutsideRestraints ==
    {<<Zero, BeamSpan, F(7)>>, <<BeamSpan, FNeg(One), Zero, F(3)>>}

\* explicit MEd and VEd: a shear of half the S355 shear resistance of the
\* 305 UB (240.4 kN), and a shear above that resistance with a moment of
\* more than 999 times the bending resistance
ShearCases == {<<F(100), Dec(2404, 1)>>, <<F(200000), F(700)>>}

\* loaded beams of the three sections, unloaded beams of every table grade
\* with a flange of each thickness, an unloaded beam with no modulus, the
\* short beam, and beams with a restraint position off the member
BeamInputs ==
    {BeamObject(BeamArgs(sd, g, l[1], l[2], l[3], l[4], l[5], rp, dlt)) :
        sd \in BeamSections, g \in GradeInputs, l \in BeamLoads,
        rp \in RestraintInputs, dlt \in LimitTypes}
    \cup {BeamObject(BeamArgs([SecUB EXCEPT !.tf = t], g, Zero, Zero, Zero,
                              Zero, Zero, None, "other")) :
              t \in ThicknessInputs, g \in TableGrades}
    \cup {BeamObject(BeamArgs(SecNoModulus, S275, Zero, Zero, Zero, Zero, Zero,
                              None, "other"))}
    \cup {BeamObject(ShortBeamArgs)}
    \cup {BeamObject(BeamArgs(SecUB, S355, Zero, Zero, F(30000), Zero,
                              FNeg(F(10000)), Some(rp), "other")) :
              rp \in OutsideRestraints}
    \cup {BeamObject(BeamArgs(SecUB, S355, l[1], l[2], Zero, Zero, Zero,
                              None, "other")) : l \in ShearCases}

BeamAbsent ==
    BeamObject(BeamArgs(SecUB, S275, Zero, Zero, Zero, Zero, Zero, None, "other"))

ColumnArgs(sd, grade, NEd, My_Ed, Mz_Ed, VEd, Lcr_y, Lcr_z, Lcr_LT) ==
    [section_data |-> sd, steel_grade |-> grade, NEd |-> NEd,
     My_Ed |-> My_Ed, Mz_Ed |-> Mz_Ed, VEd |-> VEd,
     Lcr_y |-> Lcr_y, Lcr_z |-> Lcr_z, psi_y |-> One, psi_z |-> One,
     Lcr_LT |-> Lcr_LT]

\* NEd = 825 k kN and My_Ed = 40 j kNm, alone, with Mz_Ed = 10 kNm, or with
\* VEd = 400 kN
ColumnLoads ==
    {<<F(k * 825), F(j * 40), mv[1], mv[2]>> :
        k \in LoadLevels, j \in LoadLevels,
        mv \in {<<Zero, Zero>>, <<F(10), Zero>>, <<Zero, F(400)>>}}

\* Lcr_y, Lcr_z (m) and the Lcr_LT argument
ColumnLengths ==
    {<<Zero, Zero, None>>, <<F(3), F(3), Some(Zero)>>, <<Zero, F(3), None>>,
     <<F(3), Zero, Some(F(3))>>, <<Dec(1, 1), Dec(1, 1), None>>,
     <<F(3), F(3), None>>}

ColumnObject(args) ==
    LET a == ColumnPostInit(args)
    IN  [f \in (DOMAIN a) \cup ColumnResultFields |->
            IF f \in DOMAIN a THEN a[f] ELSE ColumnDefaults[f]]

\* the columns of every section, grade, load and length, a column with no
\* modulus about y-y, a column of 100 m buckling length, thin-web
\* columns with no axial force, unloaded or in bending, and the 203 UC with
\* 1700 kN against a cross-section resistance of 1650 kN
ColumnInputs ==
    {ColumnObject(ColumnArgs(sd, g, l[1], l[2], l[3], l[4], n[1], n[2], n[3])) :
        sd \in ColumnSections, g \in GradeInputs, l \in ColumnLoads,
        n \in ColumnLengths}
    \cup {ColumnObject(ColumnArgs(sn[1], S275, F(825), Zero, Zero, Zero,
                                  sn[2], sn[2], None)) :
              sn \in {<<ColNoModulus, F(3)>>, <<SecUC, F(100)>>}}
    \cup {ColumnObject(ColumnArgs(SecThinWeb, g, Zero, my, Zero, Zero,
                                  F(3), F(3), None)) :
              g \in GradeInputs, my \in {Zero, F(40)}}
    \cup {ColumnObject(ColumnArgs(SecUC, s275, F(1700), my, Zero, Zero,
                                  n, n, None)) :
              my \in {Zero, F(40)}, n \in {Zero, F(3)}}

ColumnAbsent ==
    ColumnObject(ColumnArgs(SecUC, S275, Zero, Zero, Zero, Zero, Zero, Zero, None))

TrussArgs(sd, grade, NEd_c, NEd_t, Lcr, curve, has_holes, A_net) ==
    [section_data |-> sd, steel_grade |-> grade,
     NEd_compression |-> NEd_c, NEd_tension |-> NEd_t,
     Lcr_ip |-> Lcr[1], Lcr_oop |-> Lcr[2], buckling_curve |-> curve,
     has_holes |-> has_holes, A_net |-> A_net]

CurveInputs == {"a", "c", "x"}
TrussLengths == {<<Zero, Zero>>, <<F(2), F(3)>>}
\* has_holes and A_net (cm2)
HoleInputs == {<<FALSE, Zero>>, <<TRUE, Zero>>, <<TRUE, F(10)>>}

TrussObject(args) ==
    [f \in (DOMAIN args) \cup TrussResultFields |->
        IF f \in DOMAIN args THEN args[f] ELSE TrussDefaults[f]]

\* NEd_compression = 250 k kN and NEd_tension = 300 j kN; a member of 100 m
\* buckling length; members with no or negative area, loaded or not; members
\* in tension with holes and a declared net area of 30 cm2
TrussInputs ==
    {TrussObject(TrussArgs(sd, g, F(k * 250), F(j * 300), n, cv, hl[1], hl[2])) :
        sd \in TrussSections, g \in GradeInputs,
        k \in LoadLevels, j \in LoadLevels, n \in TrussLengths,
        cv \in CurveInputs, hl \in HoleInputs}
    \cup {TrussObject(TrussArgs(SHS100, S355, F(250), Zero,
                                <<F(100), F(100)>>, "a", FALSE, Zero))}
    \cup {TrussObject(TrussArgs(sd, S355, c, t, <<F(2), F(3)>>, "a", FALSE,
                                Zero)) :
              sd \in {SHSNoArea, SHSNegativeArea},
              c \in {Zero, F(250)}, t \in {Zero, F(300)}}
    \cup {TrussObject(TrussArgs(SHS100, g, Zero, F(300), <<F(2), F(3)>>, "a",
                                TRUE, F(30))) : g \in {S355, s275}}

TrussAbsent ==
    TrussObject(TrussArgs(SHS100, S355, Zero, Zero, <<Zero, Zero>>, "a", FALSE, Zero))


(***************************************************************************)
(* State: the three design objects, and for each its position in          *)
(* check_all (pc), the exception that left check_all (exc) and the number  *)
(* of check_all calls made on it (calls).  pc is "absent" for an object    *)
(* that is not constructed in this behaviour, "new" after construction,    *)
(* "done" after check_all returned and "raised" after it raised.  written  *)
(* is the set of result fields the running check_all call has assigned so  *)
(* far, and result is what StructureDesigner reported for the object.      *)
(***************************************************************************)
VARIABLES beam, col, truss, pc, exc, calls, written, result

vars == <<beam, col, truss, pc, exc, calls, written, result>>

Objects == {"beam", "col", "truss"}

\* the statements of check_all in program order
StepOrder(o) ==
    IF o = "beam"
    THEN <<"step1", "step2", "step3", "step4", "step5", "step6", "step8",
           "step9", "aggregate">>
    ELSE IF o = "col"
    THEN <<"step1", "step2", "step3", "step4", "step5", "step6", "step7",
           "step8", "step9", "step10", "aggregate">>
    ELSE <<"step1", "step2", "step3", "step4", "step5", "step6", "step7",
           "aggregate">>

\* a check_all that classifies after the first resistance step
StepAfterClassifyLate(o, at) ==
    IF at = "step1" THEN "step3"
    ELSE IF at = "step3" THEN "step2"
    ELSE IF at = "step2" THEN "step4"
    ELSE IF at = "aggregate" THEN "done"
    ELSE LET k == CHOOSE i \in 1..Len(StepOrder(o)) : StepOrder(o)[i] = at
         IN  StepOrder(o)[k + 1]

\* the statement check_all runs after statement at; it returns after the last
StepAfter(o, at) ==
    IF at = "aggregate" THEN "done"
    ELSE LET k == CHOOSE i \in 1..Len(StepOrder(o)) : StepOrder(o)[i] = at
         IN  StepOrder(o)[k + 1]

\* the result fields (self.x = ...) a statement of check_all assigns
StepWrites(o, at) ==
    IF o = "beam" THEN
        CASE at = "step1" -> {"epsilon", "fy"}
          [] at = "step2" -> {"c_flange", "c_web", "ct_flange", "ct_web",
                              "flange_class", "section_class", "web_class"}
          [] at = "step3" -> {"Mc_Rd", "Wy", "bending_ok", "bending_util"}
          [] at = "step4" -> {"Av", "Vpl_Rd", "shear_ok", "shear_util"}
          [] at = "step5" -> {"hw_tw", "hw_tw_limit", "shear_buckling_ok"}
          [] at = "step6" -> {"Mv_Rd", "combined_ok", "combined_util",
                              "low_shear", "rho"}
          [] at = "step8" -> {"Iw_mm6", "Mb_Rd", "Mcr", "Phi_LT", "alpha_LT",
                              "buckling_curve", "chi_LT", "chi_LT_mod",
                              "f_mod", "governing_seg_idx", "kc", "lambda_LT",
                              "ltb_ok", "ltb_segments", "ltb_util"}
          [] at = "step9" -> {"defl_ratio", "deflection_ok",
                              "deflection_util", "delta_limit"}
          [] OTHER -> {"overall_ok"}
    ELSE IF o = "col" THEN
        CASE at = "step1" -> {"epsilon", "fy"}
          [] at = "step2" -> {"alpha_web", "c_flange", "c_web", "ct_flange",
                              "ct_web", "flange_class", "section_class",
                              "web_class"}
          [] at = "step3" -> {"NRd"}
          [] at = "step4" -> {"My_Rd", "Mz_Rd", "Wy", "Wz"}
          [] at = "step5" -> {"Av", "Vpl_Rd", "shear_ok", "shear_util"}
          [] at = "step6" -> {"conservative_ok", "conservative_util"}
          [] at = "step7" -> {"MN_y_Rd", "MN_z_Rd", "a_w", "alpha_interact",
                              "alternative_ok", "alternative_util",
                              "beta_interact"}
          [] at = "step8" -> {"Nb_Rd", "Phi_y", "Phi_z", "alpha_y", "alpha_z",
                              "chi_y", "chi_z", "curve_y", "curve_z", "iy_mm",
                              "iz_mm", "lambda_1", "lambda_bar_y",
                              "lambda_bar_z"}
          [] at = "step9" -> {"Iw_mm6", "Mb_Rd", "Mcr", "Phi_LT", "alpha_LT",
                              "buckling_curve_LT", "chi_LT", "lambda_LT"}
          [] at = "step10" -> {"CmLT", "Cmy", "Cmz", "Ncr_T", "Ncr_y",
                               "Ncr_z", "aLT", "combined_buckling_ok",
                               "eq6_61", "eq6_62", "kyy", "kyz", "kzy", "kzz",
                               "lambda_bar_0"}
          [] OTHER -> {"overall_ok"}
    ELSE
        CASE at = "step1" -> {"epsilon", "fu", "fy"}
          [] at = "step2" -> {"c_b", "c_h", "ct_b", "ct_h", "section_class"}
          [] at = "step3" -> {"NRd"}
          [] at = "step4" -> {"Nb_Rd", "Phi", "alpha_imp", "chi", "lambda_1",
                              "lambda_bar", "lambda_bar_ip", "lambda_bar_oop"}
          [] at = "step5" -> {"compression_ok", "compression_util"}
          [] at = "step6" -> {"Nt_Rd"}
          [] at = "step7" -> {"tension_ok", "tension_util"}
          [] OTHER -> {"overall_ok"}

\* the result fields (fields some statement of check_all assigns) that a
\* statement of check_all reads
StepReads(o, at) ==
    IF o = "beam" THEN
        CASE at = "step2" -> {"epsilon"}
          [] at = "step3" -> {"fy", "section_class"}
          [] at = "step4" -> {"fy"}
          [] at = "step5" -> {"epsilon"}
          [] at = "step6" -> {"Mc_Rd", "Vpl_Rd", "Wy", "fy"}
          [] at = "step8" -> {"Wy", "fy"}
          [] at = "aggregate" -> {"bending_ok", "shear_ok",
                                  "shear_buckling_ok", "combined_ok",
                                  "ltb_ok", "deflection_ok"}
          [] OTHER -> {}
    ELSE IF o = "col" THEN
        CASE at = "step2" -> {"epsilon", "fy"}
          [] at = "step3" -> {"fy"}
          [] at = "step4" -> {"fy", "section_class"}
          [] at = "step5" -> {"fy"}
          [] at = "step6" -> {"My_Rd", "Mz_Rd", "NRd"}
          [] at = "step7" -> {"My_Rd", "Mz_Rd", "NRd", "conservative_ok",
                              "conservative_util", "section_class"}
          [] at = "step8" -> {"epsilon", "fy"}
          [] at = "step9" -> {"Wy", "fy"}
          [] at = "step10" -> {"Iw_mm6", "chi_LT", "chi_y", "chi_z", "fy",
                               "lambda_LT", "lambda_bar_y", "lambda_bar_z",
                               "section_class"}
          [] at = "aggregate" -> {"shear_ok", "conservative_ok",
                                  "alternative_ok", "Nb_Rd", "chi_LT",
                                  "combined_buckling_ok"}
          [] OTHER -> {}
    ELSE
        CASE at = "step2" -> {"epsilon"}
          [] at = "step3" -> {"fy"}
          [] at = "step4" -> {"epsilon", "fy"}
          [] at = "step5" -> {"Nb_Rd"}
          [] at = "step6" -> {"NRd", "fu"}
          [] at = "step7" -> {"Nt_Rd"}
          [] at = "aggregate" -> {"compression_ok", "tension_ok"}
          [] OTHER -> {}

Init ==
    \E o \in Objects :
        /\ pc = [x \in Objects |-> IF x = o THEN "new" ELSE "absent"]
        /\ exc = [x \in Objects |-> "none"]
        /\ calls = [x \in Objects |-> 0]
        /\ written = [x \in Objects |-> {}]
        /\ result = [x \in Objects |-> NoResult]
        /\ IF o = "beam" THEN beam \in BeamInputs ELSE beam = BeamAbsent
        /\ IF o = "col" THEN col \in ColumnInputs ELSE col = ColumnAbsent
        /\ IF o = "truss" THEN truss \in TrussInputs ELSE truss = TrussAbsent

\* the caller calls check_all on the object
Call(o) ==
    /\ pc[o] \in {"new", "done"}
    /\ calls[o] < MaxCalls
    /\ pc' = [pc EXCEPT ![o] = "step1"]
    /\ calls' = [calls EXCEPT ![o] = @ + 1]
    /\ written' = [written EXCEPT ![o] = {}]
    /\ UNCHANGED <<exc, result>>

\* a step returned (r.exc = "none") or raised
Control(o, at, r) ==
    /\ pc[o] = at
    /\ pc' = [pc EXCEPT ![o] = IF r.exc = "none" THEN StepAfter(o, at)
                               ELSE "raised"]
    /\ exc' = [exc EXCEPT ![o] = r.exc]
    /\ written' = [written EXCEPT ![o] = IF r.exc = "none"
                                         THEN @ \cup StepWrites(o, at) ELSE @]
    /\ UNCHANGED <<calls, result>>

\* StructureDesigner builds the result from the object check_all returned on
Design(o, utils, overall_ok) ==
    /\ pc[o] = "done"
    /\ result[o] = NoResult
    /\ result' = [result EXCEPT ![o] = DesignResult(utils, overall_ok)]
    /\ UNCHANGED <<beam, col, truss, pc, exc, calls, written>>

BeamCall == Call("beam") /\ UNCHANGED <<beam, col, truss>>

\* a step of the beam that also stores its yield strength on the column
BeamDoSharedRecord(at, r) ==
    /\ Control("beam", at, r)
    /\ beam' = r.obj
    /\ col' = [col EXCEPT !.fy = r.obj.fy]
    /\ UNCHANGED truss

BeamDo(at, r) ==
    /\ Control("beam", at, r)
    /\ beam' = r.obj
    /\ UNCHANGED <<col, truss>>

BeamStep1 == BeamDo("step1", beam_step1(beam))
BeamStep2 == BeamDo("step2", beam_step2(beam))
BeamStep3 == BeamDo("step3", beam_step3(beam))
BeamStep4 == BeamDo("step4", beam_step4(beam))
BeamStep5 == BeamDo("step5", beam_step5(beam))
BeamStep6 == BeamDo("step6", beam_step6(beam))
BeamStep8 == BeamDo("step8", beam_step8(beam))
BeamStep9 == BeamDo("step9", beam_step9(beam))
\* self.overall_ok = all([...]); return
BeamAggregate ==
    BeamDo("aggregate",
           [obj |-> [beam EXCEPT !.overall_ok = BeamOverall(beam)],
            exc |-> "none"])

\* _design_beam after design.check_all()
BeamDesign == Design("beam", BeamUtils(beam), beam.overall_ok)

ColumnCall == Call("col") /\ UNCHANGED <<beam, col, truss>>

ColumnDo(at, r) ==
    /\ Control("col", at, r)
    /\ col' = r.obj
    /\ UNCHANGED <<beam, truss>>

ColumnStep1 == ColumnDo("step1", column_step1(col))
ColumnStep2 == ColumnDo("step2", column_step2(col))
ColumnStep3 == ColumnDo("step3", column_step3(col))
ColumnStep4 == ColumnDo("step4", column_step4(col))
ColumnStep5 == ColumnDo("step5", column_step5(col))
ColumnStep6 == ColumnDo("step6", column_step6(col))
ColumnStep7 == ColumnDo("step7", column_step7(col))
ColumnStep8 == ColumnDo("step8", column_step8(col))
ColumnStep9 == ColumnDo("step9", column_step9(col))
ColumnStep10 == ColumnDo("step10", column_step10(col))
ColumnAggregate ==
    ColumnDo("aggregate",
             [obj |-> [col EXCEPT !.overall_ok = ColumnOverall(col)],
              exc |-> "none"])

\* _design_column after design.check_all()
ColumnDesign == Design("col", ColumnUtils(col), col.overall_ok)

TrussCall == Call("truss") /\ UNCHANGED <<beam, col, truss>>

TrussDo(at, r) ==
    /\ Control("truss", at, r)
    /\ truss' = r.obj
    /\ UNCHANGED <<beam, col>>

TrussStep1 == TrussDo("step1", truss_step1(truss))
TrussStep2 == TrussDo("step2", truss_step2(truss))
TrussStep3 == TrussDo("step3", truss_step3(truss))
TrussStep4 == TrussDo("step4", truss_step4(truss))
TrussStep5 == TrussDo("step5", truss_step5(truss))
TrussStep6 == TrussDo("step6", truss_step6(truss))
TrussStep7 == TrussDo("step7", truss_step7(truss))
TrussAggregate ==
    TrussDo("aggregate",
            [obj |-> [truss EXCEPT !.overall_ok = TrussOverall(truss)],
             exc |-> "none"])

\* _design_truss_member after design.check_all()
TrussDesign == Design("truss", TrussUtils(truss), truss.overall_ok)

Next ==
    \/ BeamCall
    \/ BeamStep1
    \/ BeamStep2
    \/ BeamStep3
    \/ BeamStep4
    \/ BeamStep5
    \/ BeamStep6
    \/ BeamStep8
    \/ BeamStep9
    \/ BeamAggregate
    \/ BeamDesign
    \/ ColumnCall
    \/ ColumnStep1
    \/ ColumnStep2
    \/ ColumnStep3
    \/ ColumnStep4
    \/ ColumnStep5
    \/ ColumnStep6
    \/ ColumnStep7
    \/ ColumnStep8
    \/ ColumnStep9
    \/ ColumnStep10
    \/ ColumnAggregate
    \/ ColumnDesign
    \/ TrussCall
    \/ TrussStep1
    \/ TrussStep2
    \/ TrussStep3
    \/ TrussStep4
    \/ TrussStep5
    \/ TrussStep6
    \/ TrussStep7
    \/ TrussAggregate
    \/ TrussDesign

Spec == Init /\ [][Next]_vars

(***************************************************************************)
(* Several design objects in one process: two of a beam, a column and a    *)
(* truss member are constructed, the steps of their check_all calls        *)
(* interleave in any order, and check_all is called again on an object     *)
(* that returned.                                                          *)
(***************************************************************************)
SharedBeams ==
    {BeamObject(BeamArgs(SecUB, S355, Zero, Zero, F(30000), Zero,
                         FNeg(F(10000)), Some(<<Zero, F(3), BeamSpan>>),
                         "other")),
     BeamObject(BeamArgs(SecThinWeb, s275, F(100), F(150), Zero, Zero, Zero,
                         None, "brittle"))}

SharedColumns ==
    {ColumnObject(ColumnArgs(SecUC, s275, F(825), F(40), F(10), Zero,
                             F(3), F(3), None))}

SharedTrusses ==
    {TrussObject(TrussArgs(SHS100, S355, F(250), F(300), <<F(2), F(3)>>, "a",
                           TRUE, F(10))),
     TrussObject(TrussArgs(SHS200, s275, F(250), Zero, <<F(2), F(3)>>, "x",
                           FALSE, Zero))}

InitShared ==
    \E a \in Objects :
        /\ pc = [x \in Objects |-> IF x = a THEN "absent" ELSE "new"]
        /\ exc = [x \in Objects |-> "none"]
        /\ calls = [x \in Objects |-> 0]
        /\ written = [x \in Objects |-> {}]
        /\ result = [x \in Objects |-> NoResult]
        /\ IF a = "beam" THEN beam = BeamAbsent ELSE beam \in SharedBeams
        /\ IF a = "col" THEN col = ColumnAbsent ELSE col \in SharedColumns
        /\ IF a = "truss" THEN truss = TrussAbsent ELSE truss \in SharedTrusses

\* the caller calls check_all once more on an object it has returned on
Repeat(o) ==
    /\ pc[o] = "done"
    /\ calls[o] = MaxCalls
    /\ pc' = [pc EXCEPT ![o] = "step1"]
    /\ calls' = [calls EXCEPT ![o] = @ + 1]
    /\ written' = [written EXCEPT ![o] = {}]
    /\ UNCHANGED <<exc, result>>

BeamRepeat == Repeat("beam") /\ UNCHANGED <<beam, col, truss>>

ColumnRepeat == Repeat("col") /\ UNCHANGED <<beam, col, truss>>

TrussRepeat == Repeat("truss") /\ UNCHANGED <<beam, col, truss>>

NextShared ==
    \/ Next
    \/ BeamRepeat
    \/ ColumnRepeat
    \/ TrussRepeat

SpecShared == InitShared /\ [][NextShared]_vars

(***************************************************************************)
(* The sampling of the moment diagram in exact arithmetic.  The member     *)
(* maximum of __post_init__ and the segment maxima of _step8_ltb differ by *)
(* less than the four digits of the arithmetic above resolve, so here      *)
(* positions are whole millimetres, forces newtons, the load newtons per   *)
(* millimetre, and a moment is held as twice its value in N mm.  Steps 1   *)
(* to 6 of check_all read and write none of these quantities.              *)
(***************************************************************************)
\* twice _M_at(x): 2 moment_at_i + 2 shear_at_i x + w_local x^2
TwiceM(b, x) == 2 * b.moment_at_i + 2 * b.shear_at_i * x + b.w_local * x * x

\* the largest |M| over the points S, from 0.0 (best_M, and max(moments))
PeakOver(b, S) ==
    LET vals == {0} \cup {Abs(TwiceM(b, x)) : x \in S}
    IN  CHOOSE m \in vals : \A n \in vals : n <= m

\* sample points of a member sampled at 51 points
MemberPointsCoarse(b) ==
    {(k * b.span) \div (N_SAMPLES \div 2) : k \in 0..(N_SAMPLES \div 2)}

\* x = k / 100 * span for k in range(101)
MemberPoints(b) == {(k * b.span) \div N_SAMPLES : k \in 0..N_SAMPLES}

\* x = x_start + k / n_pts * (x_end - x_start) for k in range(n_pts + 1)
SegmentPoints(x_start, x_end) ==
    {x_start + (k * (x_end - x_start)) \div N_PTS : k \in 0..N_PTS}

RECURSIVE SortedInts(_)
\* sorted(S) of a set of whole positions
SortedInts(S) ==
    IF S = {} THEN <<>>
    ELSE LET lo == CHOOSE x \in S : \A y \in S : x <= y
         IN  <<lo>> \o SortedInts(S \ {lo})

\* MEd_seg of every segment between consecutive restraint positions
SegmentPeaks(b) ==
    LET rpos == SortedInts(SeqSet(b.restraint_positions))
    IN  [i \in 1..(Len(rpos) - 1) |->
            PeakOver(b, SegmentPoints(rpos[i], rpos[i + 1]))]

SamplingSpan == 6000

\* moment_at_i (N mm), shear_at_i (N), w_local (N/mm), not all zero: among
\* them a 1 kN/m load with its moment peak at 2700 mm and at 2970 mm
SamplingLoads ==
    {l \in ({0, -900000, -2100000} \cup {1000000 * k : k \in LoadLevels})
            \X {0, 2700, 2970, 3000} \X {0, -1} : l # <<0, 0, 0>>}

\* restraint positions (mm) on the 60 mm grid of the member's sample points
SamplingRestraints ==
    {<<0, SamplingSpan>>, <<0, 5940, SamplingSpan>>, <<0, 1200, SamplingSpan>>,
     <<0, 3000, SamplingSpan>>, <<SamplingSpan, 3000, 0, 3000>>}

SamplingInputs ==
    {[span |-> SamplingSpan, moment_at_i |-> l[1], shear_at_i |-> l[2],
      w_local |-> l[3], restraint_positions |-> rp, MEd |-> 0,
      MEd_seg |-> <<>>] : l \in SamplingLoads, rp \in SamplingRestraints}

InitSampling ==
    /\ beam \in SamplingInputs
    /\ col = ColumnAbsent
    /\ truss = TrussAbsent
    /\ pc = [x \in Objects |-> "absent"]
    /\ exc = [x \in Objects |-> "none"]
    /\ calls = [x \in Objects |-> 0]
    /\ written = [x \in Objects |-> {}]
    /\ result = [x \in Objects |-> NoResult]

\* __post_init__ with a force distribution: MEd from the 101 samples
SamplePostInit ==
    /\ pc["beam"] = "absent"
    /\ beam' = [beam EXCEPT !.MEd = PeakOver(beam, MemberPoints(beam))]
    /\ pc' = [pc EXCEPT !["beam"] = "new"]
    /\ UNCHANGED <<col, truss, exc, calls, written, result>>

\* the sampling loop of _step8_ltb: M_max of every segment
SampleSegments ==
    /\ pc["beam"] = "new"
    /\ beam' = [beam EXCEPT !.MEd_seg = SegmentPeaks(beam)]
    /\ pc' = [pc EXCEPT !["beam"] = "step9"]
    /\ UNCHANGED <<col, truss, exc, calls, written, result>>

NextSampling == SamplePostInit \/ SampleSegments

SpecSampling == InitSampling /\ [][NextSampling]_vars

(***************************************************************************)
(* Properties                                                              *)
(***************************************************************************)

\* the object a name of Objects stands for
ObjectOf(o) == IF o = "beam" THEN beam ELSE IF o = "col" THEN col ELSE truss

\* the result fields of an object and their values after construction
ResultDefaults(o) ==
    IF o = "beam" THEN BeamDefaults
    ELSE IF o = "col" THEN ColumnDefaults ELSE TrussDefaults

\* no result field of the object has been written
ResultsInitial(o) ==
    \A f \in DOMAIN ResultDefaults(o) : ObjectOf(o)[f] = ResultDefaults(o)[f]

\* the grade is one of S235/S275/S355/S450, compared case-insensitively
Recognised(grade) == StrUpper(grade) \in {S235, S275, S355, S450}

\* check_all has returned
Returned(o) == pc[o] = "done"

\* check_all has raised
Raised(o) == pc[o] = "raised"

\* C1 (as amended): after BeamDesignEC3.check_all, overall_ok is true exactly
\* when all six booleans bending_ok, shear_ok, shear_buckling_ok, combined_ok,
\* ltb_ok and deflection_ok are true: the shear buckling screening of step 5
\* takes part in the aggregate.
C1_OverallIsAllSix ==
    Returned("beam") =>
        (beam.overall_ok <=>
            /\ beam.bending_ok
            /\ beam.shear_ok
            /\ beam.shear_buckling_ok
            /\ beam.combined_ok
            /\ beam.ltb_ok
            /\ beam.deflection_ok)

\* C1 (as stated): after check_all, overall_ok is true exactly when the five
\* booleans other than shear_buckling_ok are true, so a beam whose only
\* failing boolean is shear_buckling_ok has overall_ok = true.
C1_ShearBucklingInformational ==
    Returned("beam") =>
        (beam.overall_ok <=>
            /\ beam.bending_ok
            /\ beam.shear_ok
            /\ beam.combined_ok
            /\ beam.ltb_ok
            /\ beam.deflection_ok)

\* C1: check_all has returned for a beam whose only failing boolean is
\* shear_buckling_ok, and overall_ok is false
C1_OnlyShearBucklingFails ==
    /\ Returned("beam")
    /\ beam.bending_ok /\ beam.shear_ok /\ beam.combined_ok
    /\ beam.ltb_ok /\ beam.deflection_ok
    /\ ~beam.shear_buckling_ok
    /\ ~beam.overall_ok

\* C2: in each of the three pipelines, once step 1 of check_all has run, a
\* grade that is not one of S235/S275/S355/S450 (case-insensitively) has
\* raised ValueError with every result field still at its initial value, and
\* a recognised grade (such as "s275") has not raised ValueError.
C2_UnknownGradeFailsFast ==
    \A o \in Objects :
        pc[o] \notin {"absent", "new", "step1"} =>
            IF Recognised(ObjectOf(o).steel_grade)
            THEN exc[o] # "ValueError"
            ELSE Raised(o) /\ exc[o] = "ValueError" /\ ResultsInitial(o)

\* C2: check_all has raised ValueError for the grade S460
C2_UnknownGradeRaised ==
    \E o \in Objects :
        /\ Raised(o)
        /\ exc[o] = "ValueError"
        /\ ObjectOf(o).steel_grade = S460

\* C3 (as stated): for a column with a recognised grade, check_all never
\* raises, whatever the forces and buckling lengths, zero lengths included.
C3_ColumnAlwaysCompletes ==
    Recognised(col.steel_grade) => ~Raised("col")

\* C4 (as stated): no step of the beam pipeline divides by a zero capacity,
\* and step 6 completes with Vpl_Rd = 0 and VEd # 0; after check_all every
\* utilisation is demand / capacity for a positive capacity and 999 otherwise.
C4_BeamNoDivisionFault ==
    /\ exc["beam"] # "ZeroDivisionError"
    /\ Returned("beam") =>
          /\ beam.bending_util = Util(beam.MEd, beam.Mc_Rd)
          /\ beam.shear_util = Util(beam.VEd, beam.Vpl_Rd)
          /\ beam.combined_util = Util(beam.MEd, beam.Mv_Rd)
          /\ beam.deflection_util = Util(beam.delta_max, beam.delta_limit)
          /\ \A i \in 1..Len(beam.ltb_segments) :
                beam.ltb_segments[i].util =
                    Util(beam.ltb_segments[i].MEd_seg, beam.ltb_segments[i].Mb_Rd)

\* steps 6 and 7 of the column pipeline have run in this call
ColumnCombinedDone == pc["col"] \in {"step8", "step9", "step10", "aggregate", "done"}

\* C5 (as stated): for a class 1 or 2 column, a non-zero My_Ed (Mz_Ed) with
\* MN_y_Rd (MN_z_Rd) zero or negative gives alternative_util = 999 and
\* alternative_ok = false; conservative_util is 999 when NRd, My_Rd or Mz_Rd
\* is zero with a non-zero demand.
C5_SentinelWhenCapacityExhausted ==
    ColumnCombinedDone =>
        /\ (/\ col.section_class <= 2
            /\ \/ ~IsZero(col.My_Ed) /\ ~FPos(col.MN_y_Rd)
               \/ ~IsZero(col.Mz_Ed) /\ ~FPos(col.MN_z_Rd))
           => col.alternative_util = F(Sentinel) /\ ~col.alternative_ok
        /\ (\/ IsZero(col.NRd) /\ ~IsZero(col.NEd)
            \/ IsZero(col.My_Rd) /\ ~IsZero(col.My_Ed)
            \/ IsZero(col.Mz_Rd) /\ ~IsZero(col.Mz_Ed))
           => col.conservative_util = F(Sentinel)

\* C6 (as stated): TrussMemberDesignEC3.check_all completes or raises before
\* any result field is written, for every buckling_curve: it never raises
\* with some result fields written.
C6_TrussAllOrNothing ==
    Raised("truss") => ResultsInitial("truss")

\* C7: after ColumnDesignEC3.check_all, overall_ok is true exactly when
\* shear_ok, conservative_ok and alternative_ok are true, Nb_Rd >= NEd,
\* chi_LT > 0, and eq6_61 and eq6_62 are both <= 1.0 (1.0 passes).
C7_ColumnOverall ==
    Returned("col") =>
        (col.overall_ok <=>
            /\ col.shear_ok
            /\ col.conservative_ok
            /\ col.alternative_ok
            /\ FGe(col.Nb_Rd, col.NEd)
            /\ FPos(col.chi_LT)
            /\ FLe(col.eq6_61, One)
            /\ FLe(col.eq6_62, One))

\* C7: check_all has returned overall_ok = true for a column on the
\* boundary: eq6_61 is exactly 1.0 and Nb_Rd = NEd
C7_BoundaryPasses ==
    /\ Returned("col")
    /\ col.eq6_61 = One
    /\ col.Nb_Rd = col.NEd
    /\ col.overall_ok

\* the column carries no moment
PureAxial == IsZero(col.My_Ed) /\ IsZero(col.Mz_Ed)

\* C8 (as amended): for a column with My_Ed = Mz_Ed = 0, after check_all
\* alternative_util equals NEd / NRd for a class 3 or 4 section and equals 0
\* for a class 1 or 2 section.
C8_PureAxialAlternative ==
    (Returned("col") /\ PureAxial) =>
        IF col.section_class > 2
        THEN col.alternative_util = FDiv(col.NEd, col.NRd)
        ELSE col.alternative_util = Zero

\* C8 (as stated): for a column with My_Ed = Mz_Ed = 0, after check_all
\* alternative_util equals NEd / NRd for every section class.
C8_PureAxialIsAxialRatio ==
    (Returned("col") /\ PureAxial) =>
        col.alternative_util = FDiv(col.NEd, col.NRd)

\* C8: check_all has returned for a class 1 or 2 column under a positive
\* axial force and no moment, with alternative_util = 0
C8_PureAxialPlastic ==
    /\ Returned("col")
    /\ PureAxial
    /\ FPos(col.NEd)
    /\ col.section_class <= 2
    /\ col.alternative_util = Zero

\* has_dist of __post_init__
HasDist(b) == ~IsZero(b.shear_at_i) \/ ~IsZero(b.moment_at_i) \/ ~IsZero(b.w_local)

\* C9 (as stated): for a beam given MEd and VEd and no force distribution,
\* after check_all ltb_util = |MEd| / Mb_Rd, and ltb_ok is false whenever
\* |MEd| exceeds Mb_Rd.
C9_ExplicitMomentGovernsLTB ==
    (Returned("beam") /\ ~HasDist(beam)) =>
        /\ beam.ltb_util = Util(beam.MEd, beam.Mb_Rd)
        /\ FGt(FAbs(beam.MEd), beam.Mb_Rd) => ~beam.ltb_ok

\* step 8 of the beam pipeline has run in this call
BeamLTBDone == pc["beam"] \in {"step9", "aggregate", "done"}

\* C10: after the beam LTB step with a non-empty segment list,
\* governing_seg_idx is the smallest index whose segment has the maximum
\* utilisation, and Mcr, lambda_LT, Phi_LT, chi_LT, kc, f_mod, chi_LT_mod,
\* Mb_Rd, ltb_util and ltb_ok are that segment's values.
C10_GoverningSegment ==
    (BeamLTBDone /\ beam.ltb_segments # <<>>) =>
        /\ beam.governing_seg_idx \in 0..(Len(beam.ltb_segments) - 1)
        /\ \A j \in 1..Len(beam.ltb_segments) :
              /\ FLe(beam.ltb_segments[j].util,
                     beam.ltb_segments[beam.governing_seg_idx + 1].util)
              /\ j < beam.governing_seg_idx + 1 =>
                    FLt(beam.ltb_segments[j].util,
                        beam.ltb_segments[beam.governing_seg_idx + 1].util)
        /\ beam.Mcr = beam.ltb_segments[beam.governing_seg_idx + 1].Mcr
        /\ beam.lambda_LT = beam.ltb_segments[beam.governing_seg_idx + 1].lambda_LT
        /\ beam.Phi_LT = beam.ltb_segments[beam.governing_seg_idx + 1].Phi_LT
        /\ beam.chi_LT = beam.ltb_segments[beam.governing_seg_idx + 1].chi_LT
        /\ beam.kc = beam.ltb_segments[beam.governing_seg_idx + 1].kc
        /\ beam.f_mod = beam.ltb_segments[beam.governing_seg_idx + 1].f_mod
        /\ beam.chi_LT_mod = beam.ltb_segments[beam.governing_seg_idx + 1].chi_LT_mod
        /\ beam.Mb_Rd = beam.ltb_segments[beam.governing_seg_idx + 1].Mb_Rd
        /\ beam.ltb_util = beam.ltb_segments[beam.governing_seg_idx + 1].util
        /\ beam.ltb_ok = beam.ltb_segments[beam.governing_seg_idx + 1].ok

\* C10: the LTB step has run on two segments of equal, positive utilisation
\* and the first is governing
C10_TieTakesFirst ==
    /\ BeamLTBDone
    /\ Len(beam.ltb_segments) = 2
    /\ beam.ltb_segments[1].util = beam.ltb_segments[2].util
    /\ FPos(beam.ltb_segments[1].util)
    /\ beam.governing_seg_idx = 0

\* the 21 sampled moments of a segment are all equal
UniformSamples(b, seg) ==
    LET moments == SegMoments(b, seg.start_m, seg.end_m)
    IN  \A j \in 1..(N_PTS + 1) : moments[j] = moments[1]

\* the 21 sampled moments of a segment are all zero
ZeroSamples(b, seg) ==
    LET moments == SegMoments(b, seg.start_m, seg.end_m)
    IN  \A j \in 1..(N_PTS + 1) : IsZero(moments[j])

\* the float that follows 1.0
NextAfterOne == FAdd(One, Dec(1, 3))

\* the restraint list holds the two end points only
EndpointsOnly(b) == SeqSet(b.restraint_positions) = {Zero, b.span}

\* the segment list is the single segment from 0 to span
SingleSegment(b) ==
    /\ Len(b.ltb_segments) = 1
    /\ b.ltb_segments[1].start_m = Zero
    /\ b.ltb_segments[1].end_m = b.span

BeamFyDone == pc["beam"] \notin {"absent", "new", "step1", "raised"}

\* the bands (1-based) of the grade whose threshold is at least t
BandsAtLeast(grade, t) ==
    {i \in 1..Len(FY_TABLE(grade)) : FLe(t, F(FY_TABLE(grade)[i][1]))}

\* the band that applies: the least of them, or the last band when t is
\* above every threshold
BandFor(grade, t) ==
    IF BandsAtLeast(grade, t) = {} THEN Len(FY_TABLE(grade))
    ELSE CHOOSE i \in BandsAtLeast(grade, t) :
             \A j \in BandsAtLeast(grade, t) : i <= j

\* C12: for each of the four grades and every thickness, the yield strength
\* assigned by step 1 is the fy of the first band, in ascending threshold
\* order, whose threshold is >= the thickness, and the last band's fy for a
\* thickness above the last threshold.
C12_YieldStrengthBand ==
    (BeamFyDone /\ Recognised(beam.steel_grade)) =>
        beam.fy = F(FY_TABLE(StrUpper(beam.steel_grade))
                        [BandFor(StrUpper(beam.steel_grade),
                                 beam.section_data.tf)][2])

\* C12: step 1 has run on an S275 beam with a 40 mm flange, the second
\* threshold, and assigned the second band's 265
C12_ThresholdTakesOwnBand ==
    /\ BeamFyDone
    /\ StrUpper(beam.steel_grade) = S275
    /\ beam.section_data.tf = F(40)
    /\ beam.fy = F(265)

\* step 2 of the object has just assigned its classes
ClassifyDone(o) == pc[o] = "step3"

\* the c/t ratios 0, 1, ..., MaxRatio that the classifiers are probed with
MaxRatio == 130
ProbeRatios == {F(k) : k \in 0..MaxRatio}

\* class cls of ratio ct is ordered like the ratios against every probe r
\* of class Probe(r): r <= ct implies Probe(r) <= cls, ct <= r implies
\* cls <= Probe(r)
OrderedWithProbes(cls, ct, Probe(_)) ==
    \A r \in ProbeRatios :
        /\ Probe(r) \in 1..4
        /\ FLe(r, ct) => Probe(r) <= cls
        /\ FLe(ct, r) => cls <= Probe(r)

\* C13: every classifier is monotonic in the ratio for fixed epsilon (and,
\* for the column web, fixed alpha): the class assigned by step 2 is in 1..4
\* and is ordered like the ratios against the class of every probe ratio,
\* for the beam web and flange, the column flange and web and the hollow
\* section; the open-section class is max(web_class, flange_class).
C13_ClassMonotonic ==
    /\ ClassifyDone("beam") =>
          /\ beam.web_class \in 1..4 /\ beam.flange_class \in 1..4
          /\ LET Web(r) == ClassOf(r, beam.epsilon, 72, 83, 124)
                 Flange(r) == ClassOf(r, beam.epsilon, 9, 10, 14)
             IN  /\ OrderedWithProbes(beam.web_class, beam.ct_web, Web)
                 /\ OrderedWithProbes(beam.flange_class, beam.ct_flange, Flange)
          /\ beam.section_class = IMax(beam.web_class, beam.flange_class)
          /\ beam.section_class >= beam.web_class
          /\ beam.section_class >= beam.flange_class
    /\ ClassifyDone("col") =>
          /\ col.web_class \in 1..4 /\ col.flange_class \in 1..4
          /\ LET Web(r) == WebClass(r, col.alpha_web, col.epsilon)
                 Flange(r) == ClassOf(r, col.epsilon, 9, 10, 14)
             IN  /\ OrderedWithProbes(col.web_class, col.ct_web, Web)
                 /\ OrderedWithProbes(col.flange_class, col.ct_flange, Flange)
          /\ col.section_class \in {col.web_class, col.flange_class}
          /\ col.section_class >= col.web_class
          /\ col.section_class >= col.flange_class
    /\ ClassifyDone("truss") =>
          /\ truss.section_class \in 1..4
          /\ LET Part(r) == ClassOf(r, truss.epsilon, 33, 38, 42)
             IN  OrderedWithProbes(truss.section_class,
                                   FMax(truss.ct_h, truss.ct_b), Part)

\* C13: step 2 has classified a beam with a class 3 web and a class 1
\* flange as class 3
C13_SlenderWebGoverns ==
    /\ ClassifyDone("beam")
    /\ beam.web_class = 3
    /\ beam.flange_class = 1
    /\ beam.section_class = 3

\* a reduction factor in the interval (0, 1]
InUnit(chi) == FPos(chi) /\ FLe(chi, One)

\* a reduction factor for slenderness lam: in (0, 1], and 1.0 when lam = 0
Reduces(chi, lam) == InUnit(chi) /\ (IsZero(lam) => chi = One)

ColumnFlexDone == pc["col"] \in {"step9", "step10", "aggregate", "done"}
ColumnLTBDone == pc["col"] \in {"step10", "aggregate", "done"}
TrussFlexDone == pc["truss"] \in {"step5", "step6", "step7", "aggregate", "done"}

\* C14: every buckling reduction factor the pipelines produce (column chi_y,
\* chi_z and chi_LT, truss chi, each beam segment's chi_LT and chi_LT_mod)
\* lies in (0, 1], and is exactly 1.0 when its slenderness is 0.
C14_ReductionFactorInUnit ==
    /\ ColumnFlexDone =>
          /\ ~FLt(col.lambda_bar_y, Zero) => Reduces(col.chi_y, col.lambda_bar_y)
          /\ ~FLt(col.lambda_bar_z, Zero) => Reduces(col.chi_z, col.lambda_bar_z)
    /\ ColumnLTBDone => Reduces(col.chi_LT, col.lambda_LT)
    /\ TrussFlexDone => Reduces(truss.chi, truss.lambda_bar)
    /\ BeamLTBDone =>
          \A j \in 1..Len(beam.ltb_segments) :
              /\ Reduces(beam.ltb_segments[j].chi_LT,
                         beam.ltb_segments[j].lambda_LT)
              /\ Reduces(beam.ltb_segments[j].chi_LT_mod,
                         beam.ltb_segments[j].lambda_LT)

\* C14: the column steps 8 and 9 have run with zero slenderness about y-y
\* and in LTB and a positive slenderness about z-z: chi_y = chi_LT = 1.0 and
\* chi_z below 1
C14_ZeroSlendernessColumn ==
    /\ ColumnLTBDone
    /\ IsZero(col.lambda_LT) /\ col.chi_LT = One
    /\ FPos(col.lambda_bar_z) /\ FLt(col.chi_z, One) /\ FPos(col.chi_z)

\* step 10 of the column has assigned eq6_61 and eq6_62
ColumnInteractionDone == pc["col"] \in {"aggregate", "done"}

\* C15 (as stated): for every column with NEd >= 0, NEd above the elastic
\* critical forces Ncr_y or Ncr_z included, the interaction values eq6_61 and
\* eq6_62 of step 10 are each non-negative.
C15_InteractionNonNegative ==
    (ColumnInteractionDone /\ FGe(col.NEd, Zero)) =>
        /\ FGe(col.eq6_61, Zero)
        /\ FGe(col.eq6_62, Zero)

TrussCompressionDone == pc["truss"] \in {"step6", "step7", "aggregate", "done"}
TrussTensionDone == pc["truss"] \in {"aggregate", "done"}

\* C16: for a truss member, compression_util is 0 whenever NEd_compression
\* is 0, whatever Nb_Rd is (positive, zero or negative), and tension_util is
\* 0 whenever NEd_tension is 0, whatever Nt_Rd is.
C16_ZeroDemandZeroUtil ==
    /\ (TrussCompressionDone /\ IsZero(truss.NEd_compression)) =>
          truss.compression_util = Zero
    /\ (TrussTensionDone /\ IsZero(truss.NEd_tension)) =>
          truss.tension_util = Zero

\* C16: steps 5 and 7 have run on an unloaded member with negative Nb_Rd
\* and Nt_Rd and both utilisations are 0
C16_NoCapacityNoDemand ==
    /\ TrussTensionDone
    /\ IsZero(truss.NEd_compression) /\ IsZero(truss.NEd_tension)
    /\ FLt(truss.Nb_Rd, Zero) /\ FLt(truss.Nt_Rd, Zero)
    /\ truss.compression_util = Zero /\ truss.tension_util = Zero

\* the member carries tension only
TensionOnly == IsZero(truss.NEd_compression) /\ FPos(truss.NEd_tension)

\* C17: for a tension-only truss member (NEd_compression = 0,
\* NEd_tension > 0), after check_all compression_ok is true whatever the
\* buckling lengths and Nb_Rd, tension_ok is true exactly when
\* NEd_tension <= Nt_Rd with Nt_Rd > 0, and overall_ok equals tension_ok.
C17_TensionOnlyMember ==
    (Returned("truss") /\ TensionOnly) =>
        /\ truss.compression_ok
        /\ truss.tension_ok <=>
              (FPos(truss.Nt_Rd) /\ FLe(truss.NEd_tension, truss.Nt_Rd))
        /\ truss.overall_ok <=> truss.tension_ok

\* C17: check_all has returned on a tension-only member with buckling
\* lengths 2 and 3 m whose tension exceeds a positive Nt_Rd: compression_ok
\* is true, tension_ok and overall_ok are false
C17_TensionFailsAlone ==
    /\ Returned("truss") /\ TensionOnly
    /\ FPos(truss.Lcr_ip) /\ FPos(truss.Lcr_oop)
    /\ FPos(truss.Nt_Rd) /\ FGt(truss.NEd_tension, truss.Nt_Rd)
    /\ truss.compression_ok /\ ~truss.tension_ok /\ ~truss.overall_ok

\* StructureDesigner has reported on the object
Reported(o) == result[o] # NoResult

\* the value v is the largest of the entries and label is the label of the
\* first entry that has it
FirstLargest(entries, v, label) ==
    /\ \A i \in DOMAIN entries : FLe(entries[i][2], v)
    /\ \E i \in DOMAIN entries :
           /\ entries[i] = <<label, v>>
           /\ \A j \in 1..(i - 1) : entries[j][2] # v

\* C18: the max_utilisation reported for a column is the largest of
\* shear_util, conservative_util, alternative_util, NEd / Nb_Rd (a candidate
\* only when Nb_Rd > 0), eq6_61 and eq6_62, and governing_check is the label
\* of the first of these, in that order, that attains it.
C18_ColumnGoverningIsFirstLargest ==
    Reported("col") =>
        LET head == << <<"shear", col.shear_util>>,
                       <<"conservative combined", col.conservative_util>>,
                       <<"alternative combined", col.alternative_util>> >>
            tail == << <<"Eq.6.61", col.eq6_61>>, <<"Eq.6.62", col.eq6_62>> >>
            buckling == << <<"flexural buckling", FDiv(col.NEd, col.Nb_Rd)>> >>
        IN  /\ FPos(col.Nb_Rd) =>
                FirstLargest(head \o buckling \o tail,
                             result["col"].max_utilisation,
                             result["col"].governing_check)
            /\ ~FPos(col.Nb_Rd) =>
                FirstLargest(head \o tail,
                             result["col"].max_utilisation,
                             result["col"].governing_check)

\* a column in pure compression is reported: NEd / Nb_Rd and eq6_62 are both
\* the largest utilisation and the label is that of the earlier entry
C18_BucklingReportedBeforeEq662 ==
    /\ Reported("col")
    /\ FPos(col.Nb_Rd)
    /\ result["col"].governing_check = "flexural buckling"
    /\ col.eq6_62 = result["col"].max_utilisation

\* the beam utilisations in the reported order
BeamCandidates ==
    << <<"bending", beam.bending_util>>, <<"shear", beam.shear_util>>,
       <<"combined", beam.combined_util>>, <<"LTB", beam.ltb_util>>,
       <<"deflection", beam.deflection_util>> >>

\* the utilisation reported for the beam is that of the named check
LargestIs(label) ==
    \E i \in DOMAIN BeamCandidates :
        /\ BeamCandidates[i][1] = label
        /\ BeamCandidates[i][2] = result["beam"].max_utilisation

\* C19 (amended): a reported beam with bending_ok false has overall_ok false;
\* governing_check is the label of the first, in the order bending, shear,
\* combined, LTB, deflection, of the checks with the largest utilisation; so
\* it is "bending" whenever bending has the largest utilisation, alone or
\* jointly, it is "LTB" whenever LTB has the largest and none of bending,
\* shear and combined equals it, and it is "combined" only under high shear
\* with combined_util above bending_util.
C19_BeamGoverningIsFirstLargest ==
    Reported("beam") =>
        /\ ~beam.bending_ok => ~beam.overall_ok /\ ~result["beam"].overall_ok
        /\ FirstLargest(BeamCandidates, result["beam"].max_utilisation,
                        result["beam"].governing_check)
        /\ LargestIs("bending") => result["beam"].governing_check = "bending"
        /\ (/\ LargestIs("LTB")
            /\ ~LargestIs("bending")
            /\ ~LargestIs("shear")
            /\ ~LargestIs("combined"))
               => result["beam"].governing_check = "LTB"
        /\ result["beam"].governing_check = "combined"
               => ~beam.low_shear /\ FLt(beam.bending_util, beam.combined_util)

\* C19 as stated: whenever bending or LTB has the largest utilisation, alone
\* or jointly, a reported beam is labelled "bending" or "LTB".
C19_BendingOrLTBLabelled ==
    Reported("beam") /\ (LargestIs("bending") \/ LargestIs("LTB"))
        => result["beam"].governing_check \in {"bending", "LTB"}

\* a beam failing in bending is reported with LTB governing: bending_util
\* and combined_util are equal, above 1 and below ltb_util
C19_OverloadedBeamReportsLTB ==
    /\ Reported("beam")
    /\ ~beam.bending_ok
    /\ ~result["beam"].overall_ok
    /\ beam.combined_util = beam.bending_util
    /\ result["beam"].governing_check = "LTB"

\* the number in a step's name; the aggregate follows every step
StepNumber(at) ==
    CASE at = "step1" -> 1 [] at = "step2" -> 2 [] at = "step3" -> 3
      [] at = "step4" -> 4 [] at = "step5" -> 5 [] at = "step6" -> 6
      [] at = "step7" -> 7 [] at = "step8" -> 8 [] at = "step9" -> 9
      [] at = "step10" -> 10 [] at = "aggregate" -> 11

\* check_all is running on the object and pc names its next statement
Running(o) ==
    pc[o] \in {"step1", "step2", "step3", "step4", "step5", "step6", "step7",
               "step8", "step9", "step10", "aggregate"}

\* every result field the next statement reads was assigned in this call
ReadsAreWritten(o) == Running(o) => StepReads(o, pc[o]) \subseteq written[o]

\* the orderings the pipelines rely on: the class before the steps that pick
\* the plastic or elastic modulus, Wy and fy before LTB, and the step 8 and
\* step 9 results of the column before step 10
NamedOrderings ==
    /\ pc["beam"] = "step3" => "section_class" \in written["beam"]
    /\ pc["col"] = "step4" => "section_class" \in written["col"]
    /\ pc["beam"] = "step8" => {"Wy", "fy"} \subseteq written["beam"]
    /\ pc["col"] = "step9" => {"Wy", "fy"} \subseteq written["col"]
    /\ pc["col"] = "step10" =>
           {"chi_y", "chi_z", "lambda_bar_z", "Iw_mm6", "lambda_LT", "chi_LT"}
               \subseteq written["col"]

\* a call starts at step 1 and a statement is followed by one of a larger
\* number
InOrder(o) ==
    /\ Running(o) /\ Running(o)' /\ pc[o]' # pc[o] =>
           StepNumber(pc[o]') > StepNumber(pc[o])
    /\ ~Running(o) /\ Running(o)' => pc[o]' = "step1" /\ written[o]' = {}

\* C20: within one check_all call the steps run in the documented order and
\* no step reads a result field before the step that computes it has run in
\* that call: the class is set before the steps that select the plastic or
\* elastic modulus, Wy and fy before LTB, and in the column chi_y, chi_z,
\* lambda_bar_z (step 8) and Iw_mm6, lambda_LT, chi_LT (step 9) before step 10.
C20_StepsInOrderReadsAfterWrites ==
    /\ [](NamedOrderings /\ \A o \in Objects : ReadsAreWritten(o))
    /\ [][\A o \in Objects : InOrder(o)]_vars

\* the column is about to run step 10 with the step 8 and step 9 results of
\* this call assigned
C20_ColumnReachesStep10 ==
    /\ pc["col"] = "step10"
    /\ {"chi_y", "chi_z", "lambda_bar_z", "Iw_mm6", "lambda_LT", "chi_LT"}
           \subseteq written["col"]
    /\ "kzz" \notin written["col"]

\* what the statement of check_all named at does to the object obj
StepResult(o, at, obj) ==
    IF o = "beam" THEN
        CASE at = "step1" -> beam_step1(obj) [] at = "step2" -> beam_step2(obj)
          [] at = "step3" -> beam_step3(obj) [] at = "step4" -> beam_step4(obj)
          [] at = "step5" -> beam_step5(obj) [] at = "step6" -> beam_step6(obj)
          [] at = "step8" -> beam_step8(obj) [] at = "step9" -> beam_step9(obj)
          [] OTHER -> [obj |-> [obj EXCEPT !.overall_ok = BeamOverall(obj)],
                       exc |-> "none"]
    ELSE IF o = "col" THEN
        CASE at = "step1" -> column_step1(obj)
          [] at = "step2" -> column_step2(obj)
          [] at = "step3" -> column_step3(obj)
          [] at = "step4" -> column_step4(obj)
          [] at = "step5" -> column_step5(obj)
          [] at = "step6" -> column_step6(obj)
          [] at = "step7" -> column_step7(obj)
          [] at = "step8" -> column_step8(obj)
          [] at = "step9" -> column_step9(obj)
          [] at = "step10" -> column_step10(obj)
          [] OTHER -> [obj |-> [obj EXCEPT !.overall_ok = ColumnOverall(obj)],
                       exc |-> "none"]
    ELSE
        CASE at = "step1" -> truss_step1(obj) [] at = "step2" -> truss_step2(obj)
          [] at = "step3" -> truss_step3(obj) [] at = "step4" -> truss_step4(obj)
          [] at = "step5" -> truss_step5(obj) [] at = "step6" -> truss_step6(obj)
          [] at = "step7" -> truss_step7(obj)
          [] OTHER -> [obj |-> [obj EXCEPT !.overall_ok = TrussOverall(obj)],
                       exc |-> "none"]

RECURSIVE RunAlone(_, _, _)
\* the object a check_all call leaves when it runs from the statement named
\* at to its return or its exception with nothing else running
RunAlone(o, at, obj) ==
    IF at = "done" THEN obj
    ELSE LET r == StepResult(o, at, obj)
         IN  IF r.exc = "none" THEN RunAlone(o, StepAfter(o, at), r.obj)
             ELSE r.obj

\* the object as constructed: its inputs with the result fields at defaults
Fresh(o) ==
    [f \in DOMAIN ObjectOf(o) |->
        IF f \in DOMAIN ResultDefaults(o) THEN ResultDefaults(o)[f]
        ELSE ObjectOf(o)[f]]

\* no check_all call is running or still to be made
AllEnded == \A o \in Objects : pc[o] \in {"done", "raised", "absent"}

\* a step of one object changes no other object
StepTouchesOwnObject ==
    /\ pc["beam"]' = pc["beam"] => beam' = beam
    /\ pc["col"]' = pc["col"] => col' = col
    /\ pc["truss"]' = pc["truss"] => truss' = truss

\* each object that ended holds the record of a call running alone
EndedEqualsAlone ==
    AllEnded =>
        \A o \in Objects :
            pc[o] # "absent" => ObjectOf(o) = RunAlone(o, "step1", Fresh(o))

InputFields(o) == (DOMAIN ObjectOf(o)) \ (DOMAIN ResultDefaults(o))

\* a step leaves every input field of every object as it was
InputsUnchanged ==
    \A o \in Objects : \A f \in InputFields(o) : ObjectOf(o)'[f] = ObjectOf(o)[f]

\* check_all on the returned object, inputs unchanged, leaves it as it is
SecondCallChangesNothing(o) ==
    Returned(o) => RunAlone(o, "step1", ObjectOf(o)) = ObjectOf(o)

\* C22: check_all is idempotent on each pipeline: a call on an object that a
\* call has returned on, with the input fields unchanged, leaves every
\* result field (the LTB segment list, governing_seg_idx, eq6_61, eq6_62 and
\* overall_ok included) equal to its value after the first call, and no step
\* changes an input field.
C22_CheckAllIdempotent ==
    /\ [](\A o \in Objects : SecondCallChangesNothing(o))
    /\ [][InputsUnchanged]_vars

\* a second call has returned on a beam with two LTB segments and on a
\* column with its interaction values computed
C22_SecondCallReturned ==
    /\ Returned("beam") /\ calls["beam"] = 2
    /\ Len(beam.ltb_segments) = 2 /\ beam.governing_seg_idx \in {0, 1}
    /\ Returned("col") /\ calls["col"] = 2
    /\ FPos(col.eq6_61) /\ FPos(col.eq6_62)

\* the web class steps 1 and 2 of the beam assign for a section and grade
BeamWebClass(sd, grade) ==
    beam_step2(beam_step1(BeamObject(BeamArgs(sd, grade, Zero, Zero, Zero,
                                              Zero, Zero, None, "other"))).obj
              ).obj.web_class

\* C23: for a column with no axial force the web class the column classifier
\* assigns equals the web class the beam classifier assigns to the same
\* section and grade.
C23_PureBendingWebClassAsBeam ==
    ClassifyDone("col") /\ IsZero(col.NEd) =>
        col.web_class = BeamWebClass(col.section_data, col.steel_grade)

\* step 6 of the truss member has run in this call
TrussResistanceDone == pc["truss"] \in {"step7", "aggregate", "done"}

\* A fy / gammaM0 in kN
GrossCapacity(t) ==
    FDiv(FDiv(FMul(FMul(t.section_data.A, F(100)), t.fy), F(GAMMA_M0)), F(1000))

\* 0.9 A_net fu / gammaM2 in kN
NetCapacity(t) ==
    FDiv(FDiv(FMul(FMul(Dec(9, 1), FMul(t.A_net, F(100))), t.fu), GAMMA_M2),
         F(1000))

\* C24 (amended): for a truss member with bolt holes declared and a declared
\* net area A_net > 0, Nt_Rd is the minimum of the gross-section capacity
\* A fy / gammaM0 and the net-section capacity 0.9 A_net fu / gammaM2; with
\* no holes declared, or with holes declared and A_net = 0, Nt_Rd is the
\* gross-section capacity NRd.
C24_TensionResistance ==
    TrussResistanceDone =>
        /\ truss.NRd = GrossCapacity(truss)
        /\ truss.has_holes /\ FPos(truss.A_net) =>
               truss.Nt_Rd = FMin(GrossCapacity(truss), NetCapacity(truss))
        /\ ~(truss.has_holes /\ FPos(truss.A_net)) => truss.Nt_Rd = truss.NRd

\* C24 as stated: whenever holes are declared, for every A_net >= 0, Nt_Rd
\* is the minimum of the gross-section and net-section capacities.
C24_HolesAlwaysReduce ==
    TrussResistanceDone /\ truss.has_holes /\ FGe(truss.A_net, Zero) =>
        truss.Nt_Rd = FMin(GrossCapacity(truss), NetCapacity(truss))

\* a member with holes whose net section governs
C24_NetSectionGoverns ==
    /\ TrussResistanceDone
    /\ truss.has_holes
    /\ FPos(truss.A_net)
    /\ FLt(NetCapacity(truss), GrossCapacity(truss))
    /\ truss.Nt_Rd = NetCapacity(truss)

\* the restraint list holds 0 and span
HoldsEndpoints(b) == {Zero, b.span} \subseteq SeqSet(b.restraint_positions)

\* every restraint position lies on the member
WithinSpan(b) ==
    \A x \in SeqSet(b.restraint_positions) : FGe(x, Zero) /\ FLe(x, b.span)

\* the segments partition [0, span] at the distinct restraint positions
PartitionOfMember(b) ==
    /\ Len(b.ltb_segments) = Cardinality(SeqSet(b.restraint_positions)) - 1
    /\ \A i \in 1..Len(b.ltb_segments) :
           /\ FLt(b.ltb_segments[i].start_m, b.ltb_segments[i].end_m)
           /\ FPos(b.ltb_segments[i].L_mm)
           /\ {b.ltb_segments[i].start_m, b.ltb_segments[i].end_m}
                  \subseteq SeqSet(b.restraint_positions)
    /\ \A i \in 1..(Len(b.ltb_segments) - 1) :
           b.ltb_segments[i].end_m = b.ltb_segments[i + 1].start_m
    /\ b.ltb_segments[1].start_m = Zero
    /\ b.ltb_segments[Len(b.ltb_segments)].end_m = b.span

\* C25 (amended): for a restraint-position list that contains 0 and span and
\* only positions within [0, span], in any order and possibly with
\* duplicates, the LTB segments partition the member: there is one segment
\* less than there are distinct positions, each has positive length,
\* consecutive segments share an end point, the first starts at 0 and the
\* last ends at span.
C25_SegmentsPartitionMember ==
    BeamLTBDone /\ HoldsEndpoints(beam) /\ WithinSpan(beam) =>
        PartitionOfMember(beam)

\* C25 as stated: for any restraint-position list that contains 0 and span
\* the segments partition the member from 0 to span.
C25_AnyListWithEndpoints ==
    BeamLTBDone /\ HoldsEndpoints(beam) => PartitionOfMember(beam)

\* an unordered list with a duplicate position, span, 3, 0, 3, gives the
\* two segments 0..3 and 3..span
C25_UnorderedDuplicateList ==
    /\ BeamLTBDone
    /\ beam.restraint_positions = <<beam.span, F(3), Zero, F(3)>>
    /\ Len(beam.ltb_segments) = 2
    /\ beam.ltb_segments[1].end_m = F(3)
    /\ beam.ltb_segments[2].end_m = beam.span

BeamCombinedDone == pc["beam"] \in {"step8", "step9", "aggregate", "done"}

\* C26 (amended): in the beam's combined bending and shear step, for a
\* section modulus that is not negative, Mv_Rd never exceeds Mc_Rd and equals
\* Mc_Rd, with rho = 0, whenever |VEd| <= 0.5 Vpl_Rd, the boundary included;
\* combined_ok implies bending_ok; and combined_util >= bending_util whenever
\* Mv_Rd is positive or bending_util is at most the sentinel 999.
C26_ShearReducedMoment ==
    BeamCombinedDone /\ FGe(beam.Wy, Zero) =>
        /\ FLe(beam.Mv_Rd, beam.Mc_Rd)
        /\ FLe(FAbs(beam.VEd), FMul(Dec(5, 1), beam.Vpl_Rd)) =>
               beam.low_shear /\ IsZero(beam.rho) /\ beam.Mv_Rd = beam.Mc_Rd
        /\ beam.combined_ok => beam.bending_ok
        /\ FPos(beam.Mv_Rd) \/ FLe(beam.bending_util, F(Sentinel)) =>
               FGe(beam.combined_util, beam.bending_util)

\* C26 as stated: combined_util >= bending_util for every input.
C26_CombinedNeverBelowBending ==
    BeamCombinedDone => FGe(beam.combined_util, beam.bending_util)

\* a beam with a shear of exactly half its shear resistance has been taken
\* as low shear
C26_BoundaryIsLowShear ==
    /\ BeamCombinedDone
    /\ FPos(beam.VEd)
    /\ FAbs(beam.VEd) = FMul(Dec(5, 1), beam.Vpl_Rd)
    /\ beam.low_shear
    /\ beam.Mv_Rd = beam.Mc_Rd
    /\ FPos(beam.Mc_Rd)

\* the axial force exceeds a positive cross-section resistance
AxialExceeds(c) == FPos(c.NRd) /\ FGt(c.NEd, c.NRd)

\* C27: for a column with positive cross-section resistance, whenever
\* NEd > NRd > 0 the conservative utilisation exceeds 1.0 and overall_ok is
\* false, for every section class, moment and buckling length; and the
\* flexural buckling resistance Nb_Rd never exceeds NRd.
C27_AxialOverloadFails ==
    /\ ColumnCombinedDone /\ AxialExceeds(col) =>
           /\ FGt(col.conservative_util, One)
           /\ ~col.conservative_ok
           /\ ~col.overall_ok
    /\ ColumnFlexDone /\ FPos(col.NRd) => FLe(col.Nb_Rd, col.NRd)

\* check_all has returned for a class 1 column with no moment whose axial
\* force exceeds NRd
C27_StockyColumnOverloaded ==
    /\ Returned("col")
    /\ AxialExceeds(col)
    /\ col.section_class = 1
    /\ IsZero(col.My_Ed) /\ IsZero(col.Mz_Ed)
    /\ FPos(col.Nb_Rd) /\ FLt(col.Nb_Rd, col.NRd)
    /\ ~col.overall_ok

\* the reported pass/fail of o agrees with its reported governing utilisation
PassAgrees(o) == result[o].overall_ok <=> FLe(result[o].max_utilisation, One)

\* C28 (amended): for every element result produced by StructureDesigner,
\* overall_ok is true exactly when max_utilisation <= 1.0 and, for a beam,
\* the shear buckling screening shear_buckling_ok is true; so an element
\* reported as passing has a governing utilisation of at most 1.0, and only
\* a beam that fails the screening is reported as failing with one.
C28_PassAgreesUpToScreening ==
    \A o \in Objects :
        Reported(o) =>
            (result[o].overall_ok <=>
                /\ FLe(result[o].max_utilisation, One)
                /\ o = "beam" => beam.shear_buckling_ok)

\* C28 as stated: for every element result (beam, column or truss member),
\* overall_ok is true exactly when max_utilisation <= 1.0.
C28_PassExactlyWhenWithinUnity ==
    \A o \in Objects : Reported(o) => PassAgrees(o)

\* a loaded beam is reported as failing with a governing utilisation below
\* 1.0: only its shear buckling screening fails
C28_FailsWithinUnity ==
    /\ Reported("beam")
    /\ ~result["beam"].overall_ok
    /\ FPos(result["beam"].max_utilisation)
    /\ FLt(result["beam"].max_utilisation, One)
    /\ ~beam.shear_buckling_ok

\* the segments of the sampled beam have their moments
SegmentsSampled == pc["beam"] = "step9" /\ beam.MEd_seg # <<>>

\* C29 (amended): for a beam given a force distribution and restraint
\* positions within [0, span], the design moment of an LTB segment exceeds
\* the member-level MEd by no more than 0.02 % of itself, and does not
\* exceed it for a segment whose 21 sample points are among the 101 of the
\* member, as those of the single segment [0, span] are.
C29_SegmentMomentWithinTolerance ==
    SegmentsSampled =>
        \A i \in 1..Len(beam.MEd_seg) :
            /\ beam.MEd_seg[i] > beam.MEd =>
                   5000 * (beam.MEd_seg[i] - beam.MEd) <= beam.MEd_seg[i]
            /\ Len(beam.MEd_seg) = 1 => beam.MEd_seg[i] <= beam.MEd

\* C29 as stated: the design moment of every LTB segment never exceeds the
\* member-level MEd.
C29_SegmentMomentBounded ==
    SegmentsSampled =>
        \A i \in 1..Len(beam.MEd_seg) : beam.MEd_seg[i] <= beam.MEd

\* a beam restrained at 5940 mm whose first segment samples the moment peak
\* at 2970 mm, between the member's samples at 2940 mm and 3000 mm
C29_PeakBetweenMemberSamples ==
    /\ SegmentsSampled
    /\ beam.restraint_positions = <<0, 5940, SamplingSpan>>
    /\ beam.MEd_seg[1] = Abs(TwiceM(beam, 2970))
    /\ beam.MEd_seg[1] > beam.MEd
    /\ beam.MEd_seg[2] <= beam.MEd

(***************************************************************************)
(* StructureDesigner: analyze, design_all and generate_report called in    *)
(* any order on a designer with any of a beam, a column and a truss member *)
(* configured.  The entry "designer" of pc tells whether _results is set,  *)
(* of written which method was called last, of exc how that call ended, of *)
(* calls how many calls were made, and of result what _design_results      *)
(* holds.  An element that is not configured is absent.                    *)
(***************************************************************************)
MaxDesignerCalls == 3

Parties == Objects \cup {"designer"}

\* the elements in self._configs, and their order in the dictionary
Configured == {o \in Objects : pc[o] # "absent"}
ConfigOrder == <<"beam", "col", "truss">>

RECURSIVE CheckAll(_, _, _)
\* check_all from the statement named at: the object it leaves, and the
\* exception it ends with
CheckAll(o, at, obj) ==
    IF at = "done" THEN [obj |-> obj, exc |-> "none"]
    ELSE LET r == StepResult(o, at, obj)
         IN  IF r.exc = "none" THEN CheckAll(o, StepAfter(o, at), r.obj)
             ELSE r

\* _design_beam, _design_column, _design_truss_member: the design object
\* after check_all and the ElementDesignResult built from it
ElementResult(o, r) ==
    [exc |-> r.exc,
     result |-> IF r.exc # "none" THEN NoResult
                ELSE DesignResult(IF o = "beam" THEN BeamUtils(r.obj)
                                  ELSE IF o = "col" THEN ColumnUtils(r.obj)
                                  ELSE TrussUtils(r.obj),
                                  r.obj.overall_ok)]
DesignElement(o) == ElementResult(o, CheckAll(o, "step1", ObjectOf(o)))

\* any(...) in place of all(r.overall_ok for r in element_results.values())
AnyPass(element_results) ==
    \E o \in DOMAIN element_results : element_results[o].overall_ok

\* all(r.overall_ok for r in results.element_results.values())
AllPass(element_results) ==
    \A o \in DOMAIN element_results : element_results[o].overall_ok

\* the exception of the first configured element whose design raises
RECURSIVE FirstRaised(_, _)
FirstRaised(designed, i) ==
    IF i > Len(ConfigOrder) THEN "none"
    ELSE IF ConfigOrder[i] \in DOMAIN designed
            /\ designed[ConfigOrder[i]].exc # "none"
         THEN designed[ConfigOrder[i]].exc
         ELSE FirstRaised(designed, i + 1)

\* a designer call: counted, named, and ended with the exception e
DesignerCall(method, e) ==
    /\ calls["designer"] < MaxDesignerCalls
    /\ calls' = [calls EXCEPT !["designer"] = @ + 1]
    /\ written' = [written EXCEPT !["designer"] = {method}]
    /\ exc' = [exc EXCEPT !["designer"] = e]
    /\ UNCHANGED <<beam, col, truss>>

\* analyze returns and sets _results
Analyze ==
    /\ DesignerCall("analyze", "none")
    /\ pc' = [pc EXCEPT !["designer"] = "analysed"]
    /\ UNCHANGED result

\* Model.analyze raises RuntimeError: _results keeps its value
AnalyzeFails ==
    /\ DesignerCall("analyze", "RuntimeError")
    /\ UNCHANGED <<pc, result>>

\* StructureDesignResults with its all_pass
DesignResultsOf(element_results) ==
    [element_results |-> element_results, all_pass |-> AllPass(element_results)]

\* the loop of design_all over the configured elements, an exception of an
\* element's design ending the call, and the assignment of _design_results
DesignLoop(designed, raised) ==
    /\ DesignerCall("design_all", raised)
    /\ result' = IF raised # "none" THEN result
                 ELSE [result EXCEPT !["designer"] =
                          Some(DesignResultsOf([o \in DOMAIN designed |->
                                                   designed[o].result]))]
    /\ UNCHANGED pc
DesignLoopOver(designed) == DesignLoop(designed, FirstRaised(designed, 1))

\* design_all
DesignAll ==
    IF pc["designer"] # "analysed"
    THEN DesignerCall("design_all", "RuntimeError") /\ UNCHANGED <<pc, result>>
    ELSE DesignLoopOver([o \in Configured |-> DesignElement(o)])

\* generate_report
GenerateReport ==
    /\ DesignerCall("generate_report",
                    IF pc["designer"] # "analysed" \/ result["designer"] = None
                    THEN "RuntimeError" ELSE "none")
    /\ UNCHANGED <<pc, result>>

\* a beam that passes and one that fails, a column under 825 kN and under
\* 2475 kN, a tie under 300 kN and under 900 kN, and a tie with a buckling
\* curve that is no key of the table
DesignerBeams ==
    {BeamObject(BeamArgs(sd, S355, Zero, Zero, F(30000), Zero, FNeg(F(10000)),
                         None, "cantilever")) : sd \in {SecUB, SecThinWeb}}
DesignerColumns ==
    {ColumnObject(ColumnArgs(SecUC, S355, F(n), Zero, Zero, Zero, F(3), F(3),
                             None)) : n \in {825, 2475}}
DesignerTrusses ==
    {TrussObject(TrussArgs(SHS100, S355, Zero, F(n), <<F(2), F(3)>>, "a",
                           FALSE, Zero)) : n \in {300, 900}}
    \cup {TrussObject(TrussArgs(SHS100, S355, Zero, F(300), <<F(2), F(3)>>,
                                "x", FALSE, Zero))}

InitDesigner ==
    /\ beam \in DesignerBeams
    /\ col \in DesignerColumns
    /\ truss \in DesignerTrusses
    /\ \E cfg \in SUBSET Objects :
           pc = [x \in Parties |->
                    IF x = "designer" THEN "constructed"
                    ELSE IF x \in cfg THEN "new" ELSE "absent"]
    /\ exc = [x \in Parties |-> "none"]
    /\ calls = [x \in Parties |-> 0]
    /\ written = [x \in Parties |-> {}]
    /\ result = [x \in Parties |-> IF x = "designer" THEN None ELSE NoResult]

NextDesigner == Analyze \/ AnalyzeFails \/ DesignAll \/ GenerateReport

SpecDesigner == InitDesigner /\ [][NextDesigner]_vars

\* the designer holds design results
Designed == result["designer"] # None
DesignResults == result["designer"][1]

\* the call just made was to method
JustCalled(method) ==
    calls'["designer"] = calls["designer"] + 1 /\ written'["designer"] = {method}

\* the results recorded hold one entry per configured element, with
\* all_pass true exactly when every entry's overall_ok is true
ResultsComplete ==
    Designed =>
        /\ pc["designer"] = "analysed"
        /\ DOMAIN DesignResults.element_results = Configured
        /\ DesignResults.all_pass <=>
               \A o \in Configured : DesignResults.element_results[o].overall_ok

\* design_all before analyze raises RuntimeError and changes no result, a
\* design_all that returns leaves results, and generate_report raises
\* RuntimeError exactly when analyze or design_all has not completed
CallsInOrder ==
    /\ (JustCalled("design_all") /\ pc["designer"] # "analysed") =>
           (exc'["designer"] = "RuntimeError" /\ result' = result)
    /\ (JustCalled("design_all") /\ exc'["designer"] = "none") => Designed'
    /\ JustCalled("generate_report") =>
           (exc'["designer"] = "RuntimeError" <=>
               (pc["designer"] # "analysed" \/ ~Designed))

\* C30: design_all raises RuntimeError and records no design results if
\* analyze has not completed; generate_report raises RuntimeError if analyze
\* or design_all has not completed, and returns otherwise; and the results
\* a successful design_all recorded hold one entry per configured element,
\* with all_pass true exactly when every entry's overall_ok is true.
C30_AnalyzeDesignReportOrder == []ResultsComplete /\ [][CallsInOrder]_vars

\* design_all has returned for a beam, a column and a truss member of which
\* the column fails, all_pass is false, and generate_report has returned
C30_ReportAfterFailingDesign ==
    /\ Designed
    /\ Configured = Objects
    /\ DesignResults.element_results["beam"].overall_ok
    /\ ~DesignResults.element_results["col"].overall_ok
    /\ ~DesignResults.all_pass
    /\ written["designer"] = {"generate_report"}
    /\ exc["designer"] = "none"

====
